---- MODULE Spec2Model ----
(***************************************************************************)
(* Model of the recording / replay machinery of the WebScraping agents:    *)
(*   utils/action_tracker.py    ActionTracker (the action log)             *)
(*   utils/script_generator.py  PlaywrightScriptGenerator (the compiler)   *)
(*   agents/web_navigator.py, agents/product_search_agent.py               *)
(*                              the page interactions that feed the log    *)
(* Python strings are TLA+ strings; a value that may be None is boxed:     *)
(* None is <<>> and a present value v is <<v>>.                            *)
(***************************************************************************)
EXTENDS Integers, Sequences, FiniteSets, TLC

VARIABLES
    actions,      \* ActionTracker.actions: the log, a sequence of records
    start_time,   \* ActionTracker.start_time (boxed)
    end_time,     \* ActionTracker.end_time (boxed)
    now,          \* the wall clock read by datetime.now()
    calls,        \* history: the append calls made since the log was last reset
    stopped,      \* history: stop() was called and no start()/clear() since
    atStop,       \* history: the log as it was at the moment of stop()
    gen_actions,  \* PlaywrightScriptGenerator.actions
    aliased,      \* PlaywrightScriptGenerator.actions is ActionTracker.actions (one list object)
    gen_query,    \* PlaywrightScriptGenerator.query
    script,       \* the result of the last generate() (boxed)
    script_prev,  \* the result of the generate() before the last one (boxed)
    replay,       \* the last run of the generated script (boxed)
    attached,     \* WebNavigatorAgent.action_tracker is set
    handles,      \* WebNavigatorAgent.page, context, browser, playwright: set (TRUE) or None
    page,         \* WebNavigatorAgent.page: where the browser is
    executed,     \* history: the interactions completed since the log was reset
    ops,          \* history: the number of agent operations called
    faults,       \* history: the number of page calls that raised
    last          \* history: the last agent operation and what it returned (boxed)

trackerVars == <<actions, start_time, end_time, calls, stopped, atStop>>
genVars == <<gen_actions, aliased, gen_query, script, script_prev, replay>>
agentVars == <<attached, handles, page, executed, ops, faults, last>>

-----------------------------------------------------------------------------
(* Bounds of the model *)

MaxClock == 1     \* the clock takes the values 0..MaxClock
MaxLog == 2       \* direct calls of the tracker API stop at this log length
MaxGenLen == 1    \* the generator is given every log of the pool up to this length
MaxOps == 3       \* agent operations called in one run
MaxFaults == 1    \* page calls that raise in one run
MaxNodes == 5     \* elements of a generated results page
MaxCalls == 2     \* boundaries of the agents called in one run

-----------------------------------------------------------------------------
(* Python values *)

None == <<>>
Some(v) == <<v>>
DQ == "\""

\* dict.get(key, default): the default only when the key is absent
Get(d, key, default) == IF key \in DOMAIN d THEN d[key] ELSE default

\* text of a two-digit field of strftime / isoformat
Pad2(n) == IF n < 10 THEN "0" \o ToString(n) ELSE ToString(n)

\* datetime.isoformat() of the clock value t (seconds of one fixed minute)
isoformat(t) == "2026-01-11T19:05:" \o Pad2(t)

-----------------------------------------------------------------------------
(* ActionTracker *)

\* the values the callers of the tracker pass in
Urls == {"https://x.test"}
Selectors == {"#q"}
Texts == {"widget"}
Keys == {"Enter"}
ElementTypes == {Some("element"), Some("product_image"), None}
\* add_wait(wait_type, timeout=None, selector=None)
WaitCalls == {
    [wait_type |-> "load", timeout |-> Some(10000), selector |-> None],
    [wait_type |-> "selector", timeout |-> Some(5000), selector |-> Some("#q")],
    [wait_type |-> "selector", timeout |-> None, selector |-> None] }
SleepSeconds == {5, 20}      \* in tenths of a second: 0.5 and 2
\* add_action called directly: an action type with its keyword payload
RawCalls == {
    [action_type |-> "scroll", kwargs |-> [pixels |-> 100]],
    [action_type |-> "click", kwargs |-> [selector |-> "#q"]],
    [action_type |-> "navigate", kwargs |-> [type |-> "visit", url |-> "https://x.test"]] }

\* the dict literal of add_action: the keyword payload is unpacked last
action_record(action_type, kwargs, t) ==
    kwargs @@ [type |-> action_type, timestamp |-> isoformat(t)]

\* self.actions.append(action), mutated: the record is put in front
append_front(log, action) == <<action>> \o log

\* the list is replaced by the new record
append_alone(log, action) == <<action>>

\* the record is appended to the list as it was read before the last append
\* was made (a read, a suspension, then the write)
append_to_snapshot(log, action) ==
    IF log = <<>> THEN <<action>> ELSE Append(SubSeq(log, 1, Len(log) - 1), action)

\* self.actions.append(action)
append(log, action) == Append(log, action)

\* the keyword payload of each add_* helper
navigation_kwargs(url) == [url |-> url]
click_kwargs(selector, element_type) == [selector |-> selector, element_type |-> element_type]
fill_kwargs(selector, text) == [selector |-> selector, text |-> text]
press_kwargs(selector, key) == [selector |-> selector, key |-> key]
wait_kwargs(wait_type, timeout, selector) ==
    [wait_type |-> wait_type, timeout |-> timeout, selector |-> selector]
sleep_kwargs(seconds) == [seconds |-> seconds]

\* ActionTracker.__init__
TrackerInit ==
    /\ actions = <<>>
    /\ start_time = None
    /\ end_time = None
    /\ calls = <<>>
    /\ stopped = FALSE
    /\ atStop = <<>>

\* time passes between two operations
Tick ==
    /\ now < MaxClock
    /\ now' = now + 1
    /\ UNCHANGED <<trackerVars, genVars, agentVars>>

\* start() that sets the start time and keeps the list
start_keeping ==
    /\ start_time' = Some(now)
    /\ stopped' = FALSE
    /\ UNCHANGED <<actions, calls, atStop, executed>>
    /\ UNCHANGED <<end_time, now, genVars, attached, handles, page, ops, faults, last>>

\* self.actions = [] binds a new list: a list handed out before stays as it is
start ==
    /\ start_time' = Some(now)
    /\ actions' = <<>>
    /\ calls' = <<>>
    /\ stopped' = FALSE
    /\ atStop' = <<>>
    /\ executed' = <<>>
    /\ aliased' = FALSE
    /\ UNCHANGED <<gen_actions, gen_query, script, script_prev, replay>>
    /\ UNCHANGED <<end_time, now, attached, handles, page, ops, faults, last>>

stop ==
    /\ end_time' = Some(now)
    /\ stopped' = TRUE
    /\ atStop' = actions
    /\ UNCHANGED <<actions, start_time, now, calls, genVars, agentVars>>

\* self.actions.append(action) changes the list in place: whoever holds the
\* list sees the record
add_action(action_type, kwargs) ==
    /\ Len(actions) < MaxLog
    /\ actions' = append(actions, action_record(action_type, kwargs, now))
    /\ calls' = Append(calls, [action_type |-> action_type, kwargs |-> kwargs, of |-> <<>>])
    /\ gen_actions' = IF aliased THEN actions' ELSE gen_actions
    /\ UNCHANGED <<aliased, gen_query, script, script_prev, replay>>
    /\ UNCHANGED <<start_time, end_time, now, stopped, atStop, agentVars>>

add_raw == \E c \in RawCalls : add_action(c.action_type, c.kwargs)

add_navigation == \E url \in Urls : add_action("navigate", navigation_kwargs(url))

add_click ==
    \E selector \in Selectors, element_type \in ElementTypes :
        add_action("click", click_kwargs(selector, element_type))

add_fill ==
    \E selector \in Selectors, text \in Texts :
        add_action("fill", fill_kwargs(selector, text))

add_press ==
    \E selector \in Selectors, key \in Keys :
        add_action("press", press_kwargs(selector, key))

add_wait ==
    \E w \in WaitCalls :
        add_action("wait", wait_kwargs(w.wait_type, w.timeout, w.selector))

add_sleep == \E seconds \in SleepSeconds : add_action("sleep", sleep_kwargs(seconds))

get_actions == actions

clear ==
    /\ actions' = <<>>
    /\ start_time' = None
    /\ end_time' = None
    /\ calls' = <<>>
    /\ stopped' = FALSE
    /\ atStop' = <<>>
    /\ executed' = <<>>
    /\ aliased' = FALSE
    /\ UNCHANGED <<gen_actions, gen_query, script, script_prev, replay>>
    /\ UNCHANGED <<now, attached, handles, page, ops, faults, last>>


-----------------------------------------------------------------------------
(* Python string operations *)

\* sub in s
Contains(sub, s) ==
    \E i \in 1..(Len(s) - Len(sub) + 1) : SubSeq(s, i, i + Len(sub) - 1) = sub

\* s.startswith(prefix)
StartsWith(s, prefix) ==
    Len(prefix) <= Len(s) /\ SubSeq(s, 1, Len(prefix)) = prefix

UpperLetters == "ABCDEFGHIJKLMNOPQRSTUVWXYZ"
LowerLetters == "abcdefghijklmnopqrstuvwxyz"

\* the lower-case form of one character
LowerChar(c) ==
    IF \E i \in 1..26 : SubSeq(UpperLetters, i, i) = c
    THEN LET i == CHOOSE j \in 1..26 : SubSeq(UpperLetters, j, j) = c
         IN SubSeq(LowerLetters, i, i)
    ELSE c

\* s.lower()
RECURSIVE lower(_)
lower(s) == IF Len(s) = 0 THEN "" ELSE LowerChar(SubSeq(s, 1, 1)) \o lower(Tail(s))

\* f"{v}" of an optional number: None prints as None
fmt_opt_int(v) == IF v = None THEN "None" ELSE ToString(v[1])

\* f"{seconds}" of a duration held in tenths of a second: 20 prints as 2, 5 as 0.5
fmt_seconds(tenths) ==
    IF tenths % 10 = 0 THEN ToString(tenths \div 10)
    ELSE ToString(tenths \div 10) \o "." \o ToString(tenths % 10)

\* datetime.strftime('%Y-%m-%d %H:%M:%S') of the clock value t
strftime(t) == "2026-01-11 19:05:" \o Pad2(t)

-----------------------------------------------------------------------------
(* PlaywrightScriptGenerator.generate *)

indent == "        "

\* the header with the clock in a second line too (a mutation of header)
header_stamped(t, query) ==
    << "\"\"\"",
       "Auto-generated Playwright test script " \o strftime(t),
       "Generated from execution on: " \o strftime(t) >>
    \o (IF query # "" THEN <<"Original query: " \o query>> ELSE <<>>)
    \o << "\"\"\"",
          "import asyncio",
          "from playwright.async_api import async_playwright",
          "",
          "",
          "async def test_auto_generated():",
          "    \"\"\"Auto-generated test based on actual execution.\"\"\"",
          "    browser = await async_playwright().start()",
          "    chromium = await browser.chromium.launch(headless=False, slow_mo=500)",
          "    page = await chromium.new_page()",
          "",
          "    try:" >>

header(t, query) ==
    << "\"\"\"",
       "Auto-generated Playwright test script",
       "Generated from execution on: " \o strftime(t) >>
    \o (IF query # "" THEN <<"Original query: " \o query>> ELSE <<>>)
    \o << "\"\"\"",
          "import asyncio",
          "from playwright.async_api import async_playwright",
          "",
          "",
          "async def test_auto_generated():",
          "    \"\"\"Auto-generated test based on actual execution.\"\"\"",
          "    browser = await async_playwright().start()",
          "    chromium = await browser.chromium.launch(headless=False, slow_mo=500)",
          "    page = await chromium.new_page()",
          "",
          "    try:" >>

\* "# Step {i+1}: ", i counting from 0
step_comment(i) == indent \o "# Step " \o ToString(i + 1) \o ": "

navigate_block(i, action) ==
    LET url == Get(action, "url", "")
    IN << step_comment(i) \o "Navigate to " \o url,
          indent \o "await page.goto(" \o DQ \o url \o DQ \o ", wait_until=" \o DQ \o "networkidle" \o DQ \o ")",
          indent \o "await asyncio.sleep(2)",
          "" >>

\* the image test without .lower() (a mutation of is_image_type)
is_image_type_exact(element_type) ==
    Contains("product_image", element_type) \/ Contains("image", element_type)

\* "product_image" in element_type or "image" in element_type.lower()
is_image_type(element_type) ==
    Contains("product_image", element_type) \/ Contains("image", lower(element_type))

image_click_block(i, element_type) ==
    << step_comment(i) \o "Click " \o element_type,
       indent \o "# Find product image (using flexible selector)",
       indent \o "images = await page.query_selector_all(" \o DQ \o "img" \o DQ \o ")",
       indent \o "for img in images:",
       indent \o "    try:",
       indent \o "        is_visible = await img.is_visible()",
       indent \o "        if is_visible:",
       indent \o "            await img.scroll_into_view_if_needed()",
       indent \o "            await img.click()",
       indent \o "            break",
       indent \o "    except:",
       indent \o "        continue",
       indent \o "await asyncio.sleep(2)",
       indent \o "await page.wait_for_load_state(" \o DQ \o "networkidle" \o DQ \o ", timeout=10000)",
       "" >>

literal_click_block(i, selector, element_type) ==
    << step_comment(i) \o "Click " \o element_type,
       indent \o "element = await page.wait_for_selector(" \o DQ \o selector \o DQ \o ", timeout=5000)",
       indent \o "await element.click()",
       indent \o "await asyncio.sleep(1)",
       "" >>

\* the click branch; a None element type makes the `in` test raise TypeError
click_raises(action) == Get(action, "element_type", Some("element")) = None

click_block(i, action) ==
    LET selector == Get(action, "selector", "")
        element_type == Get(action, "element_type", Some("element"))[1]
    IN IF is_image_type(element_type)
       THEN image_click_block(i, element_type)
       ELSE literal_click_block(i, selector, element_type)

fill_block(i, action) ==
    LET selector == Get(action, "selector", "")
        text == Get(action, "text", "")
    IN << step_comment(i) \o "Fill input field",
          indent \o "input = await page.wait_for_selector(" \o DQ \o selector \o DQ
                 \o ", timeout=5000, state=" \o DQ \o "visible" \o DQ \o ")",
          indent \o "await input.click()",
          indent \o "await input.fill(" \o DQ \o DQ \o ")",
          indent \o "await input.fill(" \o DQ \o text \o DQ \o ")",
          indent \o "await asyncio.sleep(0.5)",
          "" >>

press_block(i, action) ==
    LET selector == Get(action, "selector", "")
        key == Get(action, "key", "Enter")
    IN << step_comment(i) \o "Press key '" \o key \o "'",
          indent \o "element = await page.wait_for_selector(" \o DQ \o selector \o DQ \o ", timeout=5000)",
          indent \o "await element.press(" \o DQ \o key \o DQ \o ")",
          indent \o "await asyncio.sleep(1)",
          "" >>

wait_block(i, action) ==
    LET wait_type == Get(action, "wait_type", "load")
        timeout == Get(action, "timeout", Some(10000))
        selector == Get(action, "selector", None)
    IN (IF wait_type = "load"
        THEN << step_comment(i) \o "Wait for page load",
                indent \o "await page.wait_for_load_state(" \o DQ \o "networkidle" \o DQ
                       \o ", timeout=" \o fmt_opt_int(timeout) \o ")" >>
        ELSE IF wait_type = "selector" /\ selector # None /\ selector # Some("")
        THEN << step_comment(i) \o "Wait for selector",
                indent \o "await page.wait_for_selector(" \o DQ \o selector[1] \o DQ
                       \o ", timeout=" \o fmt_opt_int(timeout) \o ")" >>
        ELSE <<>>)
       \o << "" >>

sleep_block(i, action) ==
    LET seconds == Get(action, "seconds", 10)
    IN << step_comment(i) \o "Wait " \o fmt_seconds(seconds) \o " seconds",
          indent \o "await asyncio.sleep(" \o fmt_seconds(seconds) \o ")",
          "" >>

\* one pass of the loop body: the lines the record at index i adds
block(i, action) ==
    LET action_type == Get(action, "type", "")
    IN CASE action_type = "navigate" -> navigate_block(i, action)
         [] action_type = "click" -> click_block(i, action)
         [] action_type = "fill" -> fill_block(i, action)
         [] action_type = "press" -> press_block(i, action)
         [] action_type = "wait" -> wait_block(i, action)
         [] action_type = "sleep" -> sleep_block(i, action)
         [] OTHER -> <<>>

\* the pass of the loop body for the record at index i raises
block_raises(action) == Get(action, "type", "") = "click" /\ click_raises(action)

footer ==
    << indent \o "print('Test completed successfully')",
       indent \o "print(f" \o DQ \o "Final URL: {page.url}" \o DQ \o ")",
       indent \o "print(f" \o DQ \o "Final title: {await page.title()}" \o DQ \o ")",
       indent \o "await asyncio.sleep(5)",
       "",
       "    except Exception as e:",
       "        print(f" \o DQ \o "Test failed: {str(e)}" \o DQ \o ")",
       "        import traceback",
       "        traceback.print_exc()",
       "",
       "    finally:",
       "        await chromium.close()",
       "        await browser.stop()",
       "",
       "",
       "if __name__ == " \o DQ \o "__main__" \o DQ \o ":",
       "    asyncio.run(test_auto_generated())" >>

\* for i, action in enumerate(self.actions), from index i on
RECURSIVE blocks(_, _)
blocks(log, i) ==
    IF i >= Len(log) THEN <<>> ELSE block(i, log[i + 1]) \o blocks(log, i + 1)

\* generate(): the lines that "\n".join(lines) joins, or the exception
generate_result(log, query, t) ==
    IF \E k \in 1..Len(log) : block_raises(log[k])
    THEN [raised |-> TRUE, lines |-> <<>>]
    ELSE [raised |-> FALSE, lines |-> header(t, query) \o blocks(log, 0) \o footer]

TrackerNext ==
    \/ Tick
    \/ start
    \/ stop
    \/ add_raw
    \/ add_navigation
    \/ add_click
    \/ add_fill
    \/ add_press
    \/ add_wait
    \/ add_sleep
    \/ clear

vars == <<trackerVars, now, genVars, agentVars>>

\* two asynchronous flows that share the tracker. add_action is a plain
\* method without an await: a flow runs a whole call between two of its
\* suspension points, and the event loop picks which flow goes on.
Flows == {1, 2}

MaxFlowCalls == 2

\* the number of calls the flow has made since the log was reset
FlowCalls(f) ==
    Cardinality({k \in DOMAIN calls :
                    /\ calls[k].action_type = "sleep"
                    /\ calls[k].kwargs.seconds \div 10 = f})

\* the flow's next call: its k-th record carries 10 * f + k
flow_add_action ==
    \E f \in Flows :
        /\ FlowCalls(f) < MaxFlowCalls
        /\ add_action("sleep", sleep_kwargs(10 * f + FlowCalls(f) + 1))

FlowsNext ==
    \/ Tick
    \/ start
    \/ stop
    \/ flow_add_action

BlankPage == [url |-> "about:blank", at |-> "blank", menu_open |-> FALSE]

\* no agent is at work
\* the four handles of the navigator, in the order _cleanup_browser closes them
HandleNames == << "page", "context", "browser", "playwright" >>

\* WebNavigatorAgent.__init__: no handle is set
Released == [h \in {"page", "context", "browser", "playwright"} |-> FALSE]

\* the handles after initialize_browser returned True
InUse == [h \in {"page", "context", "browser", "playwright"} |-> TRUE]

AgentIdle ==
    /\ attached = TRUE
    /\ handles = Released
    /\ page = BlankPage
    /\ executed = <<>>
    /\ ops = 0
    /\ faults = 0
    /\ last = None

\* no generator has been constructed
GenIdle ==
    /\ gen_actions = <<>>
    /\ aliased = FALSE
    /\ gen_query = ""
    /\ script = None
    /\ script_prev = None
    /\ replay = None

\* the tracker driven through its API
Init == TrackerInit /\ now = 0 /\ GenIdle /\ AgentIdle

Next == TrackerNext

Spec == Init /\ [][Next]_vars

SpecFlows == Init /\ [][FlowsNext]_vars

-----------------------------------------------------------------------------
(* Claims about the tracker *)

\* a record without the timestamp the tracker stamped on it
Payload(r) == [k \in DOMAIN r \ {"timestamp"} |-> r[k]]

\* the record the k-th call asked for: its type with its keyword payload
Asked(c) == c.kwargs @@ [type |-> c.action_type]

\* C1: after n append calls (add_action or any add_* helper) since the log
\* was reset, get_actions() holds exactly n records, and the record at
\* position k is the one created by the k-th call: no gap, no reordering.
C1_Ordering ==
    /\ Len(get_actions) = Len(calls)
    /\ \A k \in 1..Len(calls) : Payload(get_actions[k]) = Asked(calls[k])

C1_Witness ==
    /\ start_time # None
    /\ Len(calls) = MaxLog
    /\ calls[1].action_type # calls[2].action_type

\* C2: after stop(), a further append is rejected or ignored: the log stays
\* equal to the log as it was at the moment of stop(), until the next start().
C2_SealedAfterStop == stopped => get_actions = atStop

-----------------------------------------------------------------------------
(* The generated script, run *)

\* the number of leading blanks of a line
RECURSIVE Indent(_)
Indent(line) ==
    IF Len(line) > 0 /\ SubSeq(line, 1, 1) = " " THEN 1 + Indent(Tail(line)) ELSE 0

\* the first line of the script that reads text (0 when there is none)
LineOf(lines, text) ==
    IF \E i \in 1..Len(lines) : lines[i] = text
    THEN CHOOSE i \in 1..Len(lines) :
            lines[i] = text /\ \A j \in 1..(i - 1) : lines[j] # text
    ELSE 0

\* the statements that talk to the browser, the ones that can fail
Awaits(lines) == {i \in 1..Len(lines) : Contains("await ", lines[i])}

TryLine(lines) == LineOf(lines, "    try:")
ExceptLine(lines) == LineOf(lines, "    except Exception as e:")
FinallyLine(lines) == LineOf(lines, "    finally:")

\* the awaits before the try, under it, and under the finally
Regions(lines) ==
    LET aw == Awaits(lines)
        t == TryLine(lines)
        e == ExceptLine(lines)
        f == FinallyLine(lines)
    IN [setup |-> {i \in aw : i < t},
        body |-> {i \in aw : t < i /\ i < e},
        teardown |-> {i \in aw : f < i}]

\* a statement under the inner try of the image loop: its bare except takes
\* the failure and the loop goes on
Shielded(lines, i) == Indent(lines[i]) >= 16

\* the rest of the inner try after the statement f, skipped when f fails
SkippedAfter(lines, body, f) ==
    {i \in body : i > f /\ \A j \in f..i : Indent(lines[j]) >= 16}

\* Python's try / except Exception / finally, for a run in which the
\* statement at line f fails (f = 0: no statement fails): the statements
\* that complete, and whether the except clause ran
run_script(lines, rg, f) ==
    IF f = 0
    THEN [fail |-> f, ran |-> rg.setup \cup rg.body \cup rg.teardown, reported |-> FALSE]
    ELSE IF f \in rg.setup
    THEN [fail |-> f, ran |-> {i \in rg.setup : i < f}, reported |-> FALSE]
    ELSE IF f \in rg.body /\ Shielded(lines, f)
    THEN [fail |-> f,
          ran |-> rg.setup \cup (rg.body \ ({f} \cup SkippedAfter(lines, rg.body, f)))
                  \cup rg.teardown,
          reported |-> FALSE]
    ELSE IF f \in rg.body
    THEN [fail |-> f, ran |-> rg.setup \cup {i \in rg.body : i < f} \cup rg.teardown,
          reported |-> TRUE]
    ELSE [fail |-> f, ran |-> rg.setup \cup rg.body \cup {i \in rg.teardown : i < f},
          reported |-> FALSE]

-----------------------------------------------------------------------------
(* The generator given a log *)

\* records as the tracker builds them
Rec(action_type, kwargs) == action_record(action_type, kwargs, 0)

AppleIcon == "a[aria-label*=" \o DQ \o "Search" \o DQ \o " i]"
ImagePlaceholder == "img (product image)"

RecordPool == {
    Rec("navigate", navigation_kwargs("https://x.test")),
    Rec("click", click_kwargs(AppleIcon, Some("search_icon"))),
    Rec("click", click_kwargs(ImagePlaceholder, Some("product_image"))),
    Rec("click", click_kwargs("#hero", Some("Hero Image"))),
    Rec("click", click_kwargs("#q", None)),
    Rec("fill", fill_kwargs("#q", "widget")),
    Rec("press", press_kwargs("#q", "Enter")),
    Rec("wait", wait_kwargs("load", Some(10000), None)),
    Rec("wait", wait_kwargs("selector", Some(5000), Some("#q"))),
    Rec("wait", wait_kwargs("selector", None, None)),
    Rec("sleep", sleep_kwargs(5)),
    Rec("scroll", [pixels |-> 100]) }

\* navigate, click search icon, fill, press Enter, wait
FiveRecordLog == <<
    Rec("navigate", navigation_kwargs("https://x.test")),
    Rec("click", click_kwargs("#icon", Some("search_icon"))),
    Rec("fill", fill_kwargs("#q", "widget")),
    Rec("press", press_kwargs("#q", "Enter")),
    Rec("wait", wait_kwargs("load", Some(10000), None)) >>

\* Navigate, Fill, KeyPress, Click of the placeholder of a product image
ImageScenarioLog == <<
    Rec("navigate", navigation_kwargs("https://x.test")),
    Rec("fill", fill_kwargs("#q", "widget")),
    Rec("press", press_kwargs("#q", "Enter")),
    Rec("click", click_kwargs(ImagePlaceholder, Some("product_image"))) >>

RECURSIVE LogsUpTo(_)
LogsUpTo(n) ==
    IF n = 0 THEN {<<>>}
    ELSE LogsUpTo(n - 1) \cup
         {Append(l, r) : l \in {m \in LogsUpTo(n - 1) : Len(m) = n - 1}, r \in RecordPool}

GenLogs == LogsUpTo(MaxGenLen) \cup {FiveRecordLog, ImageScenarioLog}
Queries == {"", "buy a widget"}

\* PlaywrightScriptGenerator.__init__(actions, query)
GenInit ==
    /\ gen_actions \in GenLogs
    /\ aliased = FALSE
    /\ gen_query \in Queries
    /\ script = None
    /\ script_prev = None
    /\ replay = None

generate ==
    /\ script_prev = None
    /\ script' = Some(generate_result(gen_actions, gen_query, now))
    /\ script_prev' = script
    /\ replay' = None
    /\ UNCHANGED <<trackerVars, now, gen_actions, aliased, gen_query, agentVars>>

\* the saved script is run; at most one of its statements fails
run_generated ==
    /\ script # None
    /\ ~script[1].raised
    /\ replay = None
    /\ LET lines == script[1].lines
           rg == Regions(lines)
       IN \E f \in {0} \cup rg.setup \cup rg.body \cup rg.teardown :
             replay' = Some(run_script(lines, rg, f))
    /\ UNCHANGED <<trackerVars, now, gen_actions, aliased, gen_query, script, script_prev, agentVars>>

\* PlaywrightScriptGenerator(tracker.get_actions(), query): get_actions()
\* returns the tracker's list itself and the constructor keeps the reference
construct_generator ==
    /\ gen_actions' = get_actions
    /\ aliased' = TRUE
    /\ gen_query' = ""
    /\ script' = None
    /\ script_prev' = None
    /\ replay' = None
    /\ UNCHANGED <<trackerVars, now, agentVars>>

\* a tracker whose log is handed to generators while it is in use
HandoverNext ==
    \/ start
    \/ add_navigation
    \/ add_sleep
    \/ construct_generator
    \/ generate

GenNext ==
    \/ Tick
    \/ generate
    \/ run_generated

\* a fresh tracker beside a generator constructed from a log of the pool
InitGen == TrackerInit /\ now = 0 /\ GenInit /\ AgentIdle

SpecGen == InitGen /\ [][GenNext]_vars

SpecHandover == Init /\ [][HandoverNext]_vars

-----------------------------------------------------------------------------
(* Claims about the generator *)

Generated == script # None /\ ~script[1].raised
ScriptLines == script[1].lines

\* the text that opens the annotation of step k
StepPrefix(k) == "        # Step " \o ToString(k) \o ":"

\* the annotation lines of a script
StepLines(lines) == {i \in 1..Len(lines) : StartsWith(lines[i], "        # Step ")}

HasStep(lines, k) == \E i \in 1..Len(lines) : StartsWith(lines[i], StepPrefix(k))

\* the block annotated Step k: from its annotation to the blank line that ends it
BlockLines(lines, k) ==
    LET i == CHOOSE j \in 1..Len(lines) : StartsWith(lines[j], StepPrefix(k))
        e == CHOOSE j \in (i + 1)..Len(lines) :
                lines[j] = "" /\ \A m \in (i + 1)..(j - 1) : lines[m] # ""
    IN SubSeq(lines, i, e - 1)

HasLine(b, text) == \E i \in 1..Len(b) : b[i] = text

\* the first position from i on whose character is in chars (0: none)
NextOf(line, i, chars) ==
    LET hits == {j \in i..Len(line) : SubSeq(line, j, j) \in chars}
    IN IF hits = {} THEN 0 ELSE CHOOSE j \in hits : \A m \in hits : j <= m

\* the character at j is escaped: an odd run of backslashes stands before it
Escaped(line, j) ==
    LET run == {n \in 0..(j - 1) : \A m \in (j - n)..(j - 1) : SubSeq(line, m, m) = "\\"}
    IN (CHOOSE n \in run : \A m \in run : m <= n) % 2 = 1

\* the position of the quote that closes a literal opened before i (0: none)
CloseOf(line, i, quote) ==
    LET hits == {j \in i..Len(line) : SubSeq(line, j, j) = quote /\ ~Escaped(line, j)}
    IN IF hits = {} THEN 0 ELSE CHOOSE j \in hits : \A m \in hits : j <= m

\* Python's reading of one line of code from position i on: the texts of its
\* string literals, and whether every literal is closed; a # outside a
\* literal starts a comment
RECURSIVE Lex(_, _, _)
Lex(line, i, toks) ==
    LET open == NextOf(line, i, {DQ, "'", "#"})
    IN IF open = 0 \/ SubSeq(line, open, open) = "#"
       THEN [ok |-> TRUE, toks |-> toks]
       ELSE LET close == CloseOf(line, open + 1, SubSeq(line, open, open))
            IN IF close = 0
               THEN [ok |-> FALSE, toks |-> toks]
               ELSE Lex(line, close + 1, toks \cup {SubSeq(line, open + 1, close - 1)})

StringTokens(line) == Lex(line, 1, {}).toks
LexOk(line) == Lex(line, 1, {}).ok

\* an element type that names an image, in any letter case
DenotesImage(element_type) == Contains("image", lower(element_type))

IsImageClick(r) ==
    /\ r.type = "click"
    /\ "element_type" \in DOMAIN r
    /\ r.element_type # None
    /\ DenotesImage(r.element_type[1])

\* C5: two runs of generate() on the same log and query yield the same text
\* outside the 'Generated from execution on' line, whatever the clock reads.
C5_Deterministic ==
    (script # None /\ script_prev # None) =>
        LET a == script_prev[1]
            b == script[1]
        IN /\ a.raised = b.raised
           /\ Len(a.lines) = Len(b.lines)
           /\ \A i \in 1..Len(a.lines) :
                 ~StartsWith(a.lines[i], "Generated from execution on: ")
                    => a.lines[i] = b.lines[i]

C5_Witness ==
    /\ script # None /\ script_prev # None
    /\ ~script[1].raised
    /\ Len(gen_actions) >= 4
    /\ gen_query # ""
    /\ script[1].lines[3] # script_prev[1].lines[3]

SixTypes == {"navigate", "click", "fill", "press", "wait", "sleep"}

\* C6: for a log of n records (each of one of the six record types),
\* generate() emits exactly n annotated step blocks, the k-th annotated
\* 'Step k', in the order of the records: none dropped, merged or reordered.
C6_OneToOne ==
    (Generated /\ \A k \in 1..Len(gen_actions) : gen_actions[k].type \in SixTypes) =>
        LET steps == StepLines(ScriptLines)
        IN /\ Cardinality(steps) = Len(gen_actions)
           /\ \A k \in 1..Len(gen_actions) :
                 \E i \in steps :
                    /\ StartsWith(ScriptLines[i], StepPrefix(k))
                    /\ Cardinality({j \in steps : j < i}) = k - 1

\* C7: a Click record whose element type denotes an image compiles to the
\* block that enumerates all img elements and clicks the first visible one;
\* the recorded selector does not appear in that block.
C7_ImageClickBroadened ==
    Generated =>
        \A k \in 1..Len(gen_actions) :
            IsImageClick(gen_actions[k]) =>
                /\ HasStep(ScriptLines, k)
                /\ LET b == BlockLines(ScriptLines, k)
                   IN /\ HasLine(b, "        images = await page.query_selector_all(" \o DQ \o "img" \o DQ \o ")")
                      /\ HasLine(b, "        for img in images:")
                      /\ HasLine(b, "                is_visible = await img.is_visible()")
                      /\ HasLine(b, "                if is_visible:")
                      /\ HasLine(b, "                    await img.click()")
                      /\ HasLine(b, "                    break")
                      /\ \A i \in 1..Len(b) : ~Contains(gen_actions[k].selector, b[i])

C7_Witness ==
    /\ Generated
    /\ gen_actions = ImageScenarioLog
    /\ HasStep(ScriptLines, 4)

\* the url, selector, text and key a record asks the script to replay
RecordedStrings(r) ==
    CASE r.type = "navigate" -> {Get(r, "url", "")}
      [] r.type = "click" -> IF IsImageClick(r) THEN {} ELSE {Get(r, "selector", "")}
      [] r.type = "fill" -> {Get(r, "selector", ""), Get(r, "text", "")}
      [] r.type = "press" -> {Get(r, "selector", ""), Get(r, "key", "Enter")}
      [] r.type = "wait" ->
            IF Get(r, "wait_type", "load") = "selector" /\ Get(r, "selector", None) # None
            THEN {r.selector[1]} ELSE {}
      [] OTHER -> {}

\* C8: the compiled script is runnable text: in the block of each record,
\* every recorded url, selector, text and key is one well-formed string
\* literal whose value is the recorded value, and every literal is closed.
C8_WellFormedLiterals ==
    Generated =>
        \A k \in 1..Len(gen_actions) :
            HasStep(ScriptLines, k) =>
                LET b == BlockLines(ScriptLines, k)
                IN /\ \A i \in 1..Len(b) : LexOk(b[i])
                   /\ \A v \in RecordedStrings(gen_actions[k]) :
                         \E i \in 1..Len(b) : v \in StringTokens(b[i])

\* the script of an empty log: setup, try with only the footer, except, finally
Skeleton(t, query) == header(t, query) \o footer

\* C9: generate() never fails: it returns a script for every log, malformed
\* records included, and for the empty log the skeleton with no step block.
C9_NeverFails ==
    script # None =>
        /\ ~script[1].raised
        /\ gen_actions = <<>> =>
              /\ StepLines(ScriptLines) = {}
              /\ \E t \in 0..now : ScriptLines = Skeleton(t, gen_query)

TeardownLines(lines) ==
    {LineOf(lines, "        await chromium.close()"), LineOf(lines, "        await browser.stop()")}

\* C10: every step block lies inside the try block, teardown lies in the
\* finally block, and whichever step or setup statement fails once the
\* browser driver was started, both teardown statements (chromium.close,
\* browser.stop) are executed.
C10_TeardownAlways ==
    (Generated /\ replay # None) =>
        LET lines == ScriptLines
            rg == Regions(lines)
        IN /\ \A i \in StepLines(lines) : TryLine(lines) < i /\ i < ExceptLine(lines)
           /\ \A i \in TeardownLines(lines) : i > FinallyLine(lines)
           /\ (replay[1].fail \in rg.setup \cup rg.body /\ replay[1].ran # {}) =>
                 TeardownLines(lines) \subseteq replay[1].ran

\* C11: when a step fails in the run of the script (a statement of the step
\* raises outside the image loop, whose inner handler moves on to the next
\* image), the failure is reported, the statements of the steps after it
\* are still executed, and the teardown statements are executed.
C11_FailureHandledPerStep ==
    (Generated /\ replay # None) =>
        LET lines == ScriptLines
            rg == Regions(lines)
            f == replay[1].fail
        IN (f \in rg.body /\ ~Shielded(lines, f)) =>
              /\ replay[1].reported
              /\ \A i \in rg.body :
                    (\E st \in StepLines(lines) : f < st /\ st < i) => i \in replay[1].ran
              /\ rg.teardown \subseteq replay[1].ran

-----------------------------------------------------------------------------
(* The page the agents work on *)

\* the selectors of the Apple flow, as execute_search spells them (double
\* quotes) and as find_search_box_universal spells them (single quotes)
AppleIconSQ == "a[aria-label*='Search' i]"
AppleInput == "input[aria-label*=" \o DQ \o "Search" \o DQ \o " i]"
AppleInputSQ == "input[aria-label*='Search' i]"

\* an element of a page: its tag, its parent (0: none), its own text nodes,
\* whether it is visible, and its attributes; a page lists its elements in
\* document order, and every element's text nodes come before its children
Node(ref, tag, parent, text_nodes, visible, alt, href) ==
    [ref |-> ref, tag |-> tag, parent |-> parent, text_nodes |-> text_nodes,
     visible |-> visible, alt |-> alt, title |-> None, src |-> None, href |-> href]

\* results page: a tile with a visible image beside the product name
TileResults == <<
    Node("html", "html", 0, <<>>, TRUE, None, None),
    Node("body", "body", 1, <<>>, TRUE, None, None),
    Node("div.tile", "div", 2, <<>>, TRUE, None, None),
    Node("img#hero", "img", 3, <<>>, TRUE, Some("hero"), None),
    Node("h2", "h2", 3, << "iPhone 17" >>, TRUE, None, None) >>

\* results page: a link with the product name and no image
LinkResults == <<
    Node("html", "html", 0, <<>>, TRUE, None, None),
    Node("body", "body", 1, <<>>, TRUE, None, None),
    Node("a#buy", "a", 2, << "Buy iPhone 17" >>, TRUE, None, Some("/p/17")) >>

\* results page: the product is named in the image's alt text only
AltResults == <<
    Node("html", "html", 0, <<>>, TRUE, None, None),
    Node("body", "body", 1, <<>>, TRUE, None, None),
    Node("p", "p", 2, << "Phones" >>, TRUE, None, None),
    Node("img#pic", "img", 2, <<>>, TRUE, Some("New iPhone"), None) >>

\* what a site shows: the selectors that match a visible element (vis), an
\* element that is there but hidden (hid), an element that becomes visible
\* once the search menu is open (menu), the input elements of its markup,
\* and the elements of its search results page
Sites ==
    [url \in {"about:blank"} |->
        [vis |-> {}, hid |-> {}, menu |-> {}, inputs |-> <<>>, results |-> <<>>]]
    @@ [url \in {"https://www.apple.com"} |->
        [vis |-> {AppleIcon, AppleIconSQ},
         hid |-> {},
         menu |-> {AppleInput, AppleInputSQ},
         inputs |-> <<[type |-> Some("text"), id |-> None, name |-> None,
                       placeholder |-> Some("Search apple.com"), aria_label |-> Some("Search apple.com")]>>,
         results |-> TileResults]]
    @@ [url \in {"https://www.apple.com/us/shop/goto/iphone"} |->
        [vis |-> {}, hid |-> {}, menu |-> {}, inputs |-> <<>>, results |-> <<>>]]
    @@ [url \in {"https://x.test"} |->
        [vis |-> {"input[name='q']", "#add", "button[type='submit']"},
         hid |-> {"input[type='search']"},
         menu |-> {},
         inputs |-> <<[type |-> Some("text"), id |-> None, name |-> Some("q"),
                       placeholder |-> None, aria_label |-> None]>>,
         results |-> LinkResults]]
    @@ [url \in {"https://y.test"} |->
        [vis |-> {"#add", "#find", "#cart", "a:has-text('Checkout')"},
         hid |-> {"#old"},
         menu |-> {},
         inputs |-> <<[type |-> Some("text"), id |-> Some("find"), name |-> Some("query"),
                       placeholder |-> None, aria_label |-> None]>>,
         results |-> AltResults]]
    @@ [url \in {"https://www.apple.com/store"} |->
        [vis |-> {"button.ac-gn-searchform-submit", AppleIcon},
         hid |-> {"#ac-gn-searchform"},
         menu |-> {AppleInput},
         inputs |-> <<>>,
         results |-> TileResults]]
    @@ [url \in {"https://z.test"} |->
        [vis |-> {}, hid |-> {}, menu |-> {}, inputs |-> <<>>, results |-> <<>>]]

SiteUrls == {"https://www.apple.com", "https://x.test", "https://y.test"}

Site(pg) == Sites[pg.url]

\* an element matching the selector is attached to the page
Present(pg, selector) ==
    selector \in Site(pg).vis \cup Site(pg).hid \cup Site(pg).menu

\* the first element matching the selector is visible
Visible(pg, selector) ==
    \/ selector \in Site(pg).vis
    \/ pg.menu_open /\ selector \in Site(pg).menu

\* the page after page.goto(url)
Loaded(url) == [url |-> url, at |-> "home", menu_open |-> FALSE]

\* the page after the search was submitted
Submitted(pg) == [pg EXCEPT !.at = "results"]

\* the page after a result was clicked
Opened(pg) == [pg EXCEPT !.at = "product"]

\* the elements of the page: those of the results page of its site, or
\* those the page was given
Dom(pg) ==
    IF pg.at # "results" THEN <<>>
    ELSE IF "dom" \in DOMAIN pg THEN pg.dom
    ELSE Site(pg).results

\* the element trees of MaxNodes elements in document order: a root, one
\* heading with the product name, containers and images (visible or hidden)
Ancestors(parent, i) ==
    LET RECURSIVE up(_)
        up(j) == IF j = 0 THEN {} ELSE {j} \cup up(parent[j])
    IN up(parent[i])

Shapes ==
    {parent \in [1..MaxNodes -> 0..(MaxNodes - 1)] :
        /\ parent[1] = 0
        /\ \A i \in 2..MaxNodes :
              parent[i] \in {i - 1} \cup Ancestors(parent, i - 1)}

Taggings(parent) ==
    {tag \in [1..MaxNodes -> {"div", "img", "h2"}] :
        /\ tag[1] = "div"
        /\ Cardinality({i \in 1..MaxNodes : tag[i] = "h2"}) = 1
        /\ \A i \in 2..MaxNodes : tag[parent[i]] # "img"}

Tree(parent, tag, hidden) ==
    [i \in 1..MaxNodes |->
        Node("n" \o ToString(i), tag[i], parent[i],
             IF tag[i] \in {"h2", "a"} THEN << "iPhone 17" >> ELSE <<>>,
             i \notin hidden, None, None)]

Trees ==
    UNION {UNION {{Tree(parent, tag, hidden) :
                     hidden \in SUBSET {i \in 1..MaxNodes : tag[i] = "img"}} :
                  tag \in Taggings(parent)} :
           parent \in Shapes}

\* the trees in which the product name is the text of a link, visible or
\* hidden
LinkTaggings(parent) ==
    {tag \in [1..MaxNodes -> {"div", "img", "a"}] :
        /\ tag[1] = "div"
        /\ Cardinality({i \in 1..MaxNodes : tag[i] = "a"}) = 1
        /\ \A i \in 2..MaxNodes : tag[parent[i]] # "img"}

LinkTrees ==
    UNION {UNION {{Tree(parent, tag, hidden) :
                     hidden \in SUBSET {i \in 1..MaxNodes : tag[i] \in {"img", "a"}}} :
                  tag \in LinkTaggings(parent)} :
           parent \in Shapes}

-----------------------------------------------------------------------------
(* What an agent operation does, in program order *)

\* a page interaction that completed
Did(kind, site, target) == [ev |-> "exec", kind |-> kind, key |-> <<site, target>>]

\* a call of the tracker, and the interaction it describes
Rcd(action_type, kwargs, site, target) ==
    [ev |-> "rec", action_type |-> action_type, kwargs |-> kwargs, key |-> <<site, target>>]

\* the page call at this place raises in this run
Fails(F, site, target) == <<site, target>> \in F

\* WebNavigatorAgent.navigate_to(url)
navigate_to(pg, url, F) ==
    IF Fails(F, "goto", url)
    THEN [evs |-> << Rcd("navigate", navigation_kwargs(url), "goto", url) >>,
          ret |-> FALSE, page |-> pg]
    ELSE [evs |-> << Rcd("navigate", navigation_kwargs(url), "goto", url),
                     Did("navigate", "goto", url),
                     Did("wait", "goto_load", url),
                     Did("sleep", "goto_sleep", url),
                     Rcd("wait", wait_kwargs("load", Some(60000), None), "goto_load", url),
                     Rcd("sleep", sleep_kwargs(40), "goto_sleep", url) >>,
          ret |-> TRUE, page |-> Loaded(url)]

\* WebNavigatorAgent.find_element(selector): the element, or None
find_element(pg, selector, F) == Visible(pg, selector) /\ ~Fails(F, "find", selector)

\* WebNavigatorAgent.click(selector)
click(pg, selector, F) ==
    IF ~find_element(pg, selector, F)
    THEN [evs |-> <<>>, ret |-> FALSE, page |-> pg]
    ELSE IF Fails(F, "click", selector)
    THEN [evs |-> << Rcd("click", click_kwargs(selector, Some("element")), "click", selector) >>,
          ret |-> FALSE, page |-> pg]
    ELSE [evs |-> << Rcd("click", click_kwargs(selector, Some("element")), "click", selector),
                     Did("click", "click", selector),
                     Did("sleep", "click_sleep", selector),
                     Rcd("sleep", sleep_kwargs(30), "click_sleep", selector) >>,
          ret |-> TRUE, page |-> pg]

\* WebNavigatorAgent.fill_input(selector, text)
fill_input(pg, selector, text, F) ==
    IF ~find_element(pg, selector, F)
    THEN [evs |-> <<>>, ret |-> FALSE, page |-> pg]
    ELSE IF Fails(F, "fill", selector)
    THEN [evs |-> << Rcd("fill", fill_kwargs(selector, text), "fill", selector) >>,
          ret |-> FALSE, page |-> pg]
    ELSE [evs |-> << Rcd("fill", fill_kwargs(selector, text), "fill", selector),
                     Did("fill", "fill", selector),
                     Did("sleep", "fill_sleep", selector),
                     Rcd("sleep", sleep_kwargs(20), "fill_sleep", selector) >>,
          ret |-> TRUE, page |-> pg]

-----------------------------------------------------------------------------
(* ProductSearchAgent: finding the search box and searching *)

\* a value computed once and used under a name
Let(v, body(_)) == body(v)

\* a page call that may raise, between the steps of a straight-line block
MayFail(site) == [ev |-> "may_fail", site |-> site]

\* a straight-line block under one try: the steps done before the first page
\* call that raises, and whether the block ran to its end
Cut(steps, F, target) ==
    LET raising == {i \in 1..Len(steps) :
                       steps[i].ev = "may_fail" /\ Fails(F, steps[i].site, target)}
        first == IF raising = {} THEN Len(steps) + 1
                 ELSE CHOOSE i \in raising : \A j \in raising : i <= j
        IsStep(e) == e.ev # "may_fail"
    IN [evs |-> SelectSeq(SubSeq(steps, 1, first - 1), IsStep), ok |-> raising = {}]

\* "apple.com" in current_url.lower()
is_apple(pg) == Contains("apple.com", lower(pg.url))

\* WebNavigatorAgent.get_page_content(): the input elements of the markup,
\* none when page.content() raises
page_inputs(pg, F) ==
    IF Fails(F, "content", pg.url) THEN <<>>
    ELSE IF "markup" \in DOMAIN pg THEN pg.markup
    ELSE Site(pg).inputs

universal_apple_icons == <<
    "#ac-gn-searchform",
    "button.ac-gn-searchform-submit",
    "a[aria-label*='Search' i]",
    "button[aria-label*='Search' i]",
    ".ac-gn-searchform",
    "#globalnav-menustate-search" >>

universal_apple_inputs == <<
    "#ac-gn-searchform-input",
    "input.ac-gn-searchform-input",
    "input[type='search']",
    "input[name='q']",
    "input[aria-label*='Search' i]" >>

common_selectors == <<
    "input[type='search']",
    "input[type='text'][name*='search' i]",
    "input[type='text'][id*='search' i]",
    "input[type='text'][placeholder*='Search' i]",
    "input[type='text'][placeholder*='search' i]",
    "input[name='q']",
    "input[name='search']",
    "input[id='search']",
    "input[id='searchbox']",
    "#search",
    "#searchbox",
    ".search input",
    ".searchbox input",
    "input[aria-label*='Search' i]",
    "input[aria-label*='search' i]",
    "form[action*='search' i] input",
    "form[method='get'] input[type='text']" >>

button_selectors(selector) == <<
    "button[type='submit']",
    "input[type='submit']",
    "button.search",
    "button[aria-label*='Search' i]",
    "form button",
    "form:has(" \o selector \o ") button" >>

\* the icon loop of find_search_box_universal: the first visible icon is
\* clicked; nothing is recorded
RECURSIVE universal_icon_loop(_, _, _)
universal_icon_loop(pg, icons, F) ==
    IF icons = <<>> THEN [evs |-> <<>>, page |-> pg]
    ELSE LET sel == Head(icons)
             clicked == /\ ~Fails(F, "u_query", sel)
                        /\ Present(pg, sel)
                        /\ ~Fails(F, "u_is_visible", sel)
                        /\ Visible(pg, sel)
                        /\ ~Fails(F, "u_icon_click", sel)
         IN IF clicked
            THEN [evs |-> << Did("click", "u_icon_click", sel), Did("sleep", "u_icon_sleep", sel) >>,
                  page |-> [pg EXCEPT !.menu_open = TRUE]]
            ELSE universal_icon_loop(pg, Tail(icons), F)

\* the first selector of the list that wait_for_selector finds visible
FirstVisible(pg, selectors, F, site) ==
    LET hits == {i \in 1..Len(selectors) :
                    Visible(pg, selectors[i]) /\ ~Fails(F, site, selectors[i])}
    IN IF hits = {} THEN 0 ELSE CHOOSE i \in hits : \A j \in hits : i <= j

\* Strategy 1: the common selectors; the four evaluate calls on the element
\* found may raise, and then the next selector is tried
direct_hit(pg, F) ==
    LET hits == {i \in 1..Len(common_selectors) :
                    /\ Visible(pg, common_selectors[i])
                    /\ ~Fails(F, "d_wait", common_selectors[i])
                    /\ ~Fails(F, "d_evaluate", common_selectors[i])}
    IN IF hits = {} THEN 0 ELSE CHOOSE i \in hits : \A j \in hits : i <= j

\* the first button selector that matches an element (boxed; None: none does)
associated_button(pg, selector, F) ==
    LET btns == button_selectors(selector)
        hits == {i \in 1..Len(btns) : Present(pg, btns[i]) /\ ~Fails(F, "d_button", btns[i])}
    IN IF hits = {} THEN None
       ELSE Some(btns[CHOOSE i \in hits : \A j \in hits : i <= j])

\* what the inference service answers: an error, or a text with its code
\* fence and the JSON object in it (None: not JSON)
AiReplies == {
    [kind |-> "error", fence |-> "none", payload |-> None],
    [kind |-> "reply", fence |-> "none", payload |-> None],
    [kind |-> "reply", fence |-> "json",
     payload |-> Some([input_selector |-> Some("input[name='q']"), button_selector |-> None])],
    [kind |-> "reply", fence |-> "none",
     payload |-> Some([input_selector |-> Some("#nowhere"), button_selector |-> Some("#go")])],
    [kind |-> "reply", fence |-> "none",
     payload |-> Some([input_selector |-> Some("#old"), button_selector |-> None])],
    [kind |-> "reply", fence |-> "none",
     payload |-> Some([input_selector |-> Some(""), button_selector |-> None])] }

\* the text between the code fences, "json" stripped, through json.loads
ai_result(ai) ==
    IF ai.kind = "reply" /\ ai.fence \in {"none", "", "json"} THEN ai.payload ELSE None

\* any answer that parses is taken
ai_hit_any(ai) == ai_result(ai) # None

\* Strategy 2: the answer is taken when it names an input selector
ai_hit(ai) ==
    /\ ai_result(ai) # None
    /\ Get(ai_result(ai)[1], "input_selector", None) \notin {None, Some("")}

\* (inp.get(attr) or '').lower()
attr_lower(inp, attr) == IF inp[attr] = None THEN "" ELSE lower(inp[attr][1])

\* Strategy 3: the text and search inputs of the markup whose name, id,
\* placeholder or aria-label contains a keyword
parse_hit(inputs) ==
    LET hits == {i \in 1..Len(inputs) :
                    /\ inputs[i].type \in {Some("text"), Some("search")}
                    /\ \E keyword \in {"search", "q", "query"} :
                       \E attr \in {"name", "id", "placeholder", "aria_label"} :
                          Contains(keyword, attr_lower(inputs[i], attr))}
    IN IF hits = {} THEN 0 ELSE CHOOSE i \in hits : \A j \in hits : i <= j

\* parsed_selector that prefers the name to the id
parsed_selector_name_first(inp) ==
    IF inp.name \notin {None, Some("")} THEN "input[name='" \o inp.name[1] \o "']"
    ELSE IF inp.id \notin {None, Some("")} THEN "#" \o inp.id[1]
    ELSE "input"

parsed_selector(inp) ==
    IF inp.id \notin {None, Some("")} THEN "#" \o inp.id[1]
    ELSE IF inp.name \notin {None, Some("")} THEN "input[name='" \o inp.name[1] \o "']"
    ELSE "input"

\* {"found": False}
NotFound == [found |-> FALSE]

\* the markup is never read
parse_tier_skipped(pg, F) == NotFound

\* Strategy 3 and the end of the chain
parse_tier(pg, F) ==
    Let(page_inputs(pg, F), LAMBDA inputs :
    Let(parse_hit(inputs), LAMBDA h :
        IF h # 0
        THEN [found |-> TRUE, input_selector |-> parsed_selector(inputs[h]),
              button_selector |-> Some("button[type='submit'], input[type='submit']"),
              method |-> "html_parsing"]
        ELSE NotFound))

\* the tiers with the inference service asked before the static patterns
universal_tiers_inference_first(pg, F, ai) ==
    IF ~Fails(F, "ai", pg.url) /\ ai_hit(ai)
    THEN [info |-> [found |-> TRUE,
                    input_selector |-> ai_result(ai)[1].input_selector[1],
                    button_selector |-> Get(ai_result(ai)[1], "button_selector", None),
                    method |-> "ai_detected"],
          tried |-> << "ai_detected" >>]
    ELSE Let(direct_hit(pg, F), LAMBDA d :
        IF d # 0
        THEN [info |-> [found |-> TRUE, input_selector |-> common_selectors[d],
                        button_selector |-> associated_button(pg, common_selectors[d], F),
                        method |-> "direct_selector"],
              tried |-> << "ai_detected", "direct_selector" >>]
        ELSE [info |-> parse_tier(pg, F),
              tried |-> << "ai_detected", "direct_selector", "html_parsing" >>])

\* the tiers after the Apple branch: the result, and the tiers that ran
universal_tiers(pg, F, ai) ==
    Let(direct_hit(pg, F), LAMBDA d :
        IF d # 0
        THEN [info |-> [found |-> TRUE, input_selector |-> common_selectors[d],
                        button_selector |-> associated_button(pg, common_selectors[d], F),
                        method |-> "direct_selector"],
              tried |-> << "direct_selector" >>]
        ELSE IF ~Fails(F, "ai", pg.url) /\ ai_hit(ai)
        THEN [info |-> [found |-> TRUE,
                        input_selector |-> ai_result(ai)[1].input_selector[1],
                        button_selector |-> Get(ai_result(ai)[1], "button_selector", None),
                        method |-> "ai_detected"],
              tried |-> << "direct_selector", "ai_detected" >>]
        ELSE [info |-> parse_tier(pg, F),
              tried |-> << "direct_selector", "ai_detected", "html_parsing" >>])

\* ProductSearchAgent.find_search_box_universal(page)
find_search_box_universal(pg, F, ai) ==
    IF is_apple(pg)
    THEN Let(universal_icon_loop(pg, universal_apple_icons, F), LAMBDA icon :
         Let(FirstVisible(icon.page, universal_apple_inputs, F, "u_wait"), LAMBDA i :
             IF i # 0
             THEN [info |-> [found |-> TRUE, input_selector |-> universal_apple_inputs[i],
                             button_selector |->
                                 Some("button.ac-gn-searchform-submit, button[type='submit']"),
                             method |-> "apple_specific"],
                   evs |-> icon.evs, page |-> icon.page, tried |-> << "apple_specific" >>]
             ELSE Let(universal_tiers(icon.page, F, ai), LAMBDA t :
                      [info |-> t.info, evs |-> icon.evs, page |-> icon.page,
                       tried |-> << "apple_specific" >> \o t.tried])))
    ELSE Let(universal_tiers(pg, F, ai), LAMBDA t :
             [info |-> t.info, evs |-> <<>>, page |-> pg, tried |-> t.tried])

apple_search_icons == <<
    "#ac-gn-searchform",
    "button.ac-gn-searchform-submit",
    "a[aria-label*=" \o DQ \o "Search" \o DQ \o " i]",
    "button[aria-label*=" \o DQ \o "Search" \o DQ \o " i]" >>

apple_input_selectors == <<
    "#ac-gn-searchform-input",
    "input.ac-gn-searchform-input",
    "input[type=" \o DQ \o "search" \o DQ \o "]",
    "input[name=" \o DQ \o "q" \o DQ \o "]",
    "input[aria-label*=" \o DQ \o "Search" \o DQ \o " i]" >>

\* Step 1 of the Apple flow: the first visible icon is clicked; the click is
\* recorded before it is made, and an icon whose click raises is passed over
RECURSIVE apple_icon_loop(_, _, _)
apple_icon_loop(pg, icons, F) ==
    IF icons = <<>> THEN [evs |-> <<>>, page |-> pg]
    ELSE LET sel == Head(icons)
             rest == apple_icon_loop(pg, Tail(icons), F)
         IN IF \/ Fails(F, "icon_query", sel)
               \/ ~Present(pg, sel)
               \/ Fails(F, "icon_is_visible", sel)
               \/ ~Visible(pg, sel)
            THEN rest
            ELSE IF Fails(F, "icon_click", sel)
            THEN [evs |-> << Rcd("click", click_kwargs(sel, Some("search_icon")), "icon_click", sel) >>
                          \o rest.evs,
                  page |-> rest.page]
            ELSE [evs |-> << Rcd("click", click_kwargs(sel, Some("search_icon")), "icon_click", sel),
                             Did("click", "icon_click", sel),
                             Did("sleep", "icon_sleep", sel),
                             Rcd("sleep", sleep_kwargs(20), "icon_sleep", sel) >>,
                  page |-> [pg EXCEPT !.menu_open = TRUE]]

\* Step 2 of the Apple flow for one selector whose input is visible
apple_input_steps(sel, search_query) == <<
    Rcd("click", click_kwargs(sel, Some("search_input")), "input_click", sel),
    MayFail("input_click"),
    Did("click", "input_click", sel),
    Did("sleep", "input_click_sleep", sel),
    Rcd("sleep", sleep_kwargs(5), "input_click_sleep", sel),
    MayFail("input_clear"),
    Did("fill", "input_clear", sel),
    Did("sleep", "input_clear_sleep", sel),
    Rcd("sleep", sleep_kwargs(3), "input_clear_sleep", sel),
    Rcd("fill", fill_kwargs(sel, search_query), "input_fill", sel),
    MayFail("input_fill"),
    Did("fill", "input_fill", sel),
    Did("sleep", "input_fill_sleep", sel),
    Rcd("sleep", sleep_kwargs(10), "input_fill_sleep", sel),
    Rcd("press", press_kwargs(sel, "Enter"), "input_press", sel),
    MayFail("input_press"),
    Did("press", "input_press", sel),
    MayFail("input_load"),
    Did("wait", "input_load", sel),
    Rcd("wait", wait_kwargs("load", Some(10000), None), "input_load", sel),
    Did("sleep", "input_load_sleep", sel),
    Rcd("sleep", sleep_kwargs(20), "input_load_sleep", sel) >>

Pressed(evs) == \E i \in 1..Len(evs) : evs[i].ev = "exec" /\ evs[i].kind = "press"

\* Step 2 of the Apple flow: the selectors are tried in turn; a selector
\* whose block raises is passed over, with what it did and recorded left
RECURSIVE apple_input_loop(_, _, _, _, _)
apple_input_loop(pg, selectors, search_query, F, filled) ==
    IF selectors = <<>>
    THEN [evs |-> <<>>, page |-> pg, filled |-> filled, returned |-> FALSE, seen |-> FALSE]
    ELSE LET absent == \/ ~Visible(pg, Head(selectors))
                       \/ Fails(F, "input_wait", Head(selectors))
         IN Let(IF absent THEN [evs |-> <<>>, ok |-> FALSE]
                ELSE Cut(apple_input_steps(Head(selectors), search_query), F, Head(selectors)),
                LAMBDA r :
                LET pg2 == IF Pressed(r.evs) THEN Submitted(pg) ELSE pg
                IN IF r.ok
                   THEN [evs |-> r.evs, page |-> pg2, filled |-> TRUE, returned |-> TRUE,
                         seen |-> TRUE]
                   ELSE LET rest == apple_input_loop(pg2, Tail(selectors), search_query, F,
                                                     filled \/ Pressed(r.evs))
                        IN [rest EXCEPT !.evs = r.evs \o rest.evs,
                                        !.seen = ~absent \/ rest.seen])

\* the generic flow once the input is visible: nothing is recorded
generic_steps(sel, button, by_button) ==
    << MayFail("g_click"),
       Did("click", "g_click", sel),
       Did("sleep", "g_click_sleep", sel),
       MayFail("g_clear"),
       Did("fill", "g_clear", sel),
       Did("sleep", "g_clear_sleep", sel),
       MayFail("g_fill"),
       Did("fill", "g_fill", sel),
       Did("sleep", "g_fill_sleep", sel) >>
    \o (IF by_button
        THEN << Did("click", "g_button_click", button) >>
        ELSE << MayFail("g_press"), Did("press", "g_press", sel) >>)
    \o << MayFail("g_load"),
          Did("wait", "g_load", sel),
          Did("sleep", "g_load_sleep", sel) >>

SubmittedBy(evs) ==
    \E i \in 1..Len(evs) :
        evs[i].ev = "exec" /\ evs[i].key[1] \in {"g_press", "g_button_click"}

\* the generic search flow with the search box u that was found
generic_submit(u, search_query, F) ==
    LET sel == u.info.input_selector
        button == IF u.info.button_selector = None THEN "" ELSE u.info.button_selector[1]
        by_button == /\ button # ""
                     /\ Visible(u.page, button)
                     /\ ~Fails(F, "g_button_wait", button)
                     /\ ~Fails(F, "g_button_click", button)
    IN IF ~Visible(u.page, sel) \/ Fails(F, "g_wait", sel)
       THEN [evs |-> u.evs, ret |-> FALSE, page |-> u.page, tried |-> u.tried,
             why |-> "error"]
       ELSE Let(Cut(generic_steps(sel, button, by_button), F, sel), LAMBDA r :
                [evs |-> u.evs \o r.evs, ret |-> r.ok,
                 page |-> IF SubmittedBy(r.evs) THEN Submitted(u.page) ELSE u.page,
                 tried |-> u.tried, why |-> IF r.ok THEN "" ELSE "error"])

\* the generic search flow
generic_flow(pg, search_query, F, ai) ==
    Let(find_search_box_universal(pg, F, ai), LAMBDA u :
        IF ~u.info.found
        THEN [evs |-> u.evs, ret |-> FALSE, page |-> u.page, tried |-> u.tried,
              why |-> "not_found"]
        ELSE generic_submit(u, search_query, F))

\* the Apple flow after its two loops: done, given up, or on to the generic
\* flow when Enter was pressed and the load wait raised
apple_outcome(icon, inp, search_query, F, ai) ==
    IF inp.returned
    THEN [evs |-> icon.evs \o inp.evs, ret |-> TRUE, page |-> inp.page,
          tried |-> << "apple_flow" >>, why |-> ""]
    ELSE IF ~inp.filled
    THEN [evs |-> icon.evs \o inp.evs, ret |-> FALSE, page |-> inp.page,
          tried |-> << "apple_flow" >>,
          why |-> IF inp.seen THEN "error" ELSE "not_found"]
    ELSE Let(generic_flow(inp.page, search_query, F, ai), LAMBDA g :
             [g EXCEPT !.evs = icon.evs \o inp.evs \o g.evs,
                       !.tried = << "apple_flow" >> \o g.tried])

\* ProductSearchAgent.execute_search(search_query, page)
execute_search(pg, search_query, F, ai) ==
    IF is_apple(pg)
    THEN Let(apple_icon_loop(pg, apple_search_icons, F), LAMBDA icon :
         Let(apple_input_loop(icon.page, apple_input_selectors, search_query, F, FALSE),
             LAMBDA inp : apple_outcome(icon, inp, search_query, F, ai)))
    ELSE generic_flow(pg, search_query, F, ai)

\* the page calls of execute_search that may raise in a run
SearchFaultPoints(pg) ==
    IF is_apple(pg)
    THEN {<<"icon_click", AppleIcon>>, <<"icon_is_visible", AppleIcon>>}
         \cup {<<"icon_click", apple_search_icons[j]>> :
                 j \in {i \in DOMAIN apple_search_icons :
                           apple_search_icons[i] \in Site(pg).vis}}
         \cup {<<f, AppleInput>> :
                 f \in {"input_wait", "input_click", "input_clear", "input_fill",
                        "input_press", "input_load"}}
         \cup {<<"u_icon_click", AppleIconSQ>>, <<"u_wait", AppleInputSQ>>}
    ELSE {<<f, "input[name='q']">> :
             f \in {"d_wait", "d_evaluate", "g_wait", "g_click", "g_clear", "g_fill",
                    "g_press", "g_load"}}
         \cup {<<f, "button[type='submit']">> : f \in {"d_button", "g_button_wait", "g_button_click"}}
         \cup {<<"ai", pg.url>>, <<"content", pg.url>>}

-----------------------------------------------------------------------------
(* ProductSearchAgent: clicking the product image *)

\* str.split(): the words between runs of blanks
RECURSIVE split_from(_, _, _)
split_from(s, i, word) ==
    IF i > Len(s) THEN IF word = "" THEN <<>> ELSE << word >>
    ELSE LET c == SubSeq(s, i, i)
         IN (IF c = " " /\ word # "" THEN << word >> ELSE <<>>)
            \o split_from(s, i + 1, IF c = " " THEN "" ELSE word \o c)

split(s) == split_from(s, 1, "")

\* el.parentElement and the elements under an element
RECURSIVE IsUnder(_, _, _)
IsUnder(dom, j, i) ==
    /\ dom[j].parent # 0
    /\ \/ dom[j].parent = i
       \/ IsUnder(dom, dom[j].parent, i)

Least(S) == IF S = {} THEN 0 ELSE CHOOSE i \in S : \A j \in S : i <= j
Greatest(S) == IF S = {} THEN 0 ELSE CHOOSE i \in S : \A j \in S : i >= j

\* element.query_selector("img"): the first image under the element (0: None)
query_img(dom, i) == Least({j \in DOMAIN dom : dom[j].tag = "img" /\ IsUnder(dom, j, i)})

previousElementSibling(dom, i) ==
    Greatest({j \in DOMAIN dom : j < i /\ dom[j].parent = dom[i].parent /\ dom[i].parent # 0})

nextElementSibling(dom, i) ==
    Least({j \in DOMAIN dom : j > i /\ dom[j].parent = dom[i].parent /\ dom[i].parent # 0})

\* element.text_content(): the text nodes of the element and of the elements
\* under it, in document order
RECURSIVE concat(_)
concat(texts) == IF texts = <<>> THEN "" ELSE Head(texts) \o concat(Tail(texts))

RECURSIVE text_from(_, _, _)
text_from(dom, i, j) ==
    IF j > Len(dom) THEN ""
    ELSE (IF j = i \/ IsUnder(dom, j, i) THEN concat(dom[j].text_nodes) ELSE "")
         \o text_from(dom, i, j + 1)

text_content(dom, i) == text_from(dom, i, i)

\* the three XPath queries: the first text node, the string value, or any
\* text node of the element contains the lowered product name
xpath_match(q, dom, i, product_name_lower) ==
    CASE q = 1 -> /\ dom[i].text_nodes # <<>>
                  /\ Contains(product_name_lower, lower(dom[i].text_nodes[1]))
      [] q = 2 -> Contains(product_name_lower, lower(text_content(dom, i)))
      [] q = 3 -> \E t \in 1..Len(dom[i].text_nodes) :
                      Contains(product_name_lower, lower(dom[i].text_nodes[t]))

all_keywords(product_keywords, text) ==
    \A k \in 1..Len(product_keywords) : Contains(product_keywords[k], text)

\* step 5 of the walk: the image under the previous sibling, else under the
\* next one; a missing sibling ends the step (the handle of null has no
\* query_selector, and the error is swallowed)
sibling_image(dom, i) ==
    LET prev == previousElementSibling(dom, i)
        next == nextElementSibling(dom, i)
    IN IF prev = 0 THEN 0
       ELSE IF query_img(dom, prev) # 0 THEN query_img(dom, prev)
       ELSE IF next = 0 THEN 0
       ELSE query_img(dom, next)

\* step 6 of the walk: up to five ancestors, the first one with an image
RECURSIVE ancestor_image(_, _, _)
ancestor_image(dom, current, levels) ==
    IF levels = 0 \/ dom[current].parent = 0 THEN 0
    ELSE IF query_img(dom, dom[current].parent) # 0
    THEN query_img(dom, dom[current].parent)
    ELSE ancestor_image(dom, dom[current].parent, levels - 1)

\* the image beside a text element (0: none)
find_image(dom, i) ==
    LET parent == dom[i].parent
        grandparent == IF parent = 0 THEN 0 ELSE dom[parent].parent
    IN IF dom[i].tag = "img" THEN i
       ELSE IF query_img(dom, i) # 0 THEN query_img(dom, i)
       ELSE IF parent # 0 /\ query_img(dom, parent) # 0 THEN query_img(dom, parent)
       ELSE IF grandparent # 0 /\ query_img(dom, grandparent) # 0
       THEN query_img(dom, grandparent)
       ELSE IF sibling_image(dom, i) # 0 THEN sibling_image(dom, i)
       ELSE ancestor_image(dom, i, 5)

\* the visible image found beside the name is clicked: the 0.5 s sleep is
\* taken, then the click and the sleep are recorded, then the click is made
image_steps(ref) == <<
    MayFail("img_scroll"),
    Did("sleep", "img_pre_sleep", ref),
    Rcd("click", click_kwargs("img (product image)", Some("product_image")), "img_click", ref),
    Rcd("sleep", sleep_kwargs(5), "img_pre_sleep", ref),
    MayFail("img_click"),
    Did("click", "img_click", ref),
    Did("sleep", "img_post_sleep", ref),
    Rcd("sleep", sleep_kwargs(20), "img_post_sleep", ref),
    MayFail("img_load"),
    Did("wait", "img_load", ref),
    Rcd("wait", wait_kwargs("load", Some(10000), None), "img_load", ref) >>

\* the link with the name is clicked, or the image with the name in its
\* attributes: nothing is recorded
plain_steps(site, ref) == <<
    MayFail(site \o "_scroll"),
    Did("sleep", site \o "_pre_sleep", ref),
    MayFail(site \o "_click"),
    Did("click", site \o "_click", ref),
    Did("sleep", site \o "_post_sleep", ref),
    MayFail(site \o "_load"),
    Did("wait", site \o "_load", ref) >>

Clicked(evs) == \E i \in 1..Len(evs) : evs[i].ev = "exec" /\ evs[i].kind = "click"

Nothing == [evs |-> <<>>, ok |-> FALSE]

\* on_element that falls back on the link whenever no image was clicked
on_element_link_anyway(dom, i, F) ==
    Let(find_image(dom, i), LAMBDA image :
        IF image # 0 /\ ~Fails(F, "img_is_visible", dom[image].ref) /\ dom[image].visible
        THEN Cut(image_steps(dom[image].ref), F, dom[image].ref)
        ELSE IF dom[i].tag = "a"
        THEN IF Fails(F, "link_is_visible", dom[i].ref) \/ ~dom[i].visible
             THEN Nothing
             ELSE Cut(plain_steps("link", dom[i].ref), F, dom[i].ref)
        ELSE Nothing)

\* one element whose text holds every keyword
on_element(dom, i, F) ==
    Let(find_image(dom, i), LAMBDA image :
        IF image # 0
        THEN IF Fails(F, "img_is_visible", dom[image].ref) \/ ~dom[image].visible
             THEN Nothing
             ELSE Cut(image_steps(dom[image].ref), F, dom[image].ref)
        ELSE IF dom[i].tag = "a"
        THEN IF Fails(F, "link_is_visible", dom[i].ref) \/ ~dom[i].visible
             THEN Nothing
             ELSE Cut(plain_steps("link", dom[i].ref), F, dom[i].ref)
        ELSE Nothing)

\* the elements of one query, the first 20, in document order; once a click
\* has left the page, the remaining handles are stale and are passed over
RECURSIVE on_elements(_, _, _, _, _)
on_elements(dom, q, i, name, F) ==
    IF i > Len(dom) \/ i > 20 THEN Nothing
    ELSE Let(IF /\ xpath_match(q, dom, i, name)
                /\ ~Fails(F, "text_content", dom[i].ref)
                /\ all_keywords(split(name), lower(text_content(dom, i)))
             THEN on_element(dom, i, F)
             ELSE Nothing,
             LAMBDA r :
             IF r.ok \/ Clicked(r.evs) THEN r
             ELSE LET rest == on_elements(dom, q, i + 1, name, F)
                  IN [evs |-> r.evs \o rest.evs, ok |-> rest.ok])

RECURSIVE on_queries(_, _, _, _)
on_queries(pg, q, name, F) ==
    IF q > 3 THEN [evs |-> <<>>, ok |-> FALSE, page |-> pg]
    ELSE Let(IF Fails(F, "query_selector_all", ToString(q)) THEN Nothing
             ELSE on_elements(Dom(pg), q, 1, name, F),
             LAMBDA r :
             LET pg2 == IF Clicked(r.evs) THEN Opened(pg) ELSE pg
             IN IF r.ok THEN [evs |-> r.evs, ok |-> TRUE, page |-> pg2]
                ELSE LET rest == on_queries(pg2, q + 1, name, F)
                     IN [rest EXCEPT !.evs = r.evs \o rest.evs])

\* (await img.get_attribute(attr) or "").lower()
attribute_lower(node, attr) == IF node[attr] = None THEN "" ELSE lower(node[attr][1])

\* the fallback: the first 30 images, by alt, title and src
RECURSIVE on_images(_, _, _, _)
on_images(dom, i, product_keywords, F) ==
    IF i > Len(dom) THEN Nothing
    ELSE Let(IF /\ dom[i].tag = "img"
                /\ Cardinality({j \in 1..i : dom[j].tag = "img"}) <= 30
                /\ \E k \in 1..Len(product_keywords), attr \in {"alt", "title", "src"} :
                      Contains(product_keywords[k], attribute_lower(dom[i], attr))
                /\ ~Fails(F, "attr_is_visible", dom[i].ref)
                /\ dom[i].visible
             THEN Cut(plain_steps("attr", dom[i].ref), F, dom[i].ref)
             ELSE Nothing,
             LAMBDA r :
             IF r.ok \/ Clicked(r.evs) THEN r
             ELSE LET rest == on_images(dom, i + 1, product_keywords, F)
                  IN [evs |-> r.evs \o rest.evs, ok |-> rest.ok])

\* the fallback after the three queries r found nothing to click
image_fallback(r, before, product_keywords, F) ==
    IF Fails(F, "query_selector_all", "img")
    THEN [evs |-> before \o r.evs, ret |-> FALSE, page |-> r.page]
    ELSE Let(on_images(Dom(r.page), 1, product_keywords, F), LAMBDA f :
             [evs |-> before \o r.evs \o f.evs, ret |-> f.ok,
              page |-> IF Clicked(f.evs) THEN Opened(r.page) ELSE r.page])

\* ProductSearchAgent.click_product_image(product_name, page)
click_product_image(pg, product_name, F) ==
    IF Fails(F, "p_load", pg.url)
    THEN [evs |-> <<>>, ret |-> FALSE, page |-> pg]
    ELSE LET before == << Did("wait", "p_load", pg.url), Did("sleep", "p_load_sleep", pg.url) >>
         IN Let(on_queries(pg, 1, lower(product_name), F), LAMBDA r :
                IF r.ok
                THEN [evs |-> before \o r.evs, ret |-> TRUE, page |-> r.page]
                ELSE image_fallback(r, before, split(lower(product_name)), F))

\* the page calls of click_product_image that may raise in a run
ImageFaultPoints(pg) ==
    {<<"p_load", pg.url>>}
    \cup {<<f, Dom(pg)[i].ref>> :
            f \in {"img_click", "img_load", "link_click", "attr_click", "attr_load"},
            i \in {j \in DOMAIN Dom(pg) : Dom(pg)[j].tag \in {"img", "a"}}}

-----------------------------------------------------------------------------
(* The agents at work *)

IsRec(e) == e.ev = "rec"
IsExec(e) == e.ev = "exec"

\* the tracker calls of an operation, made one after the other
RECURSIVE add_all(_, _, _)
add_all(log, recs, t) ==
    IF recs = <<>> THEN log
    ELSE add_all(append(log, action_record(Head(recs).action_type, Head(recs).kwargs, t)),
                 Tail(recs), t)

\* the sets of page calls that raise in one operation
RECURSIVE SetsUpTo(_, _)
SetsUpTo(points, k) ==
    IF k = 0 THEN {{}}
    ELSE LET smaller == SetsUpTo(points, k - 1)
         IN smaller \cup {F \cup {p} : F \in smaller, p \in points}

FaultSets(points) == SetsUpTo(points, MaxFaults - faults)

\* an operation ran: its tracker calls reach the log when a tracker is
\* attached, its interactions happened on the page
Ran(name, F, run) ==
    LET n == ops + 1
        recs == IF attached THEN SelectSeq(run.evs, IsRec) ELSE <<>>
        done == SelectSeq(run.evs, IsExec)
    IN /\ actions' = add_all(actions, recs, now)
       /\ calls' = calls \o [i \in 1..Len(recs) |->
                       [action_type |-> recs[i].action_type, kwargs |-> recs[i].kwargs,
                        of |-> <<n>> \o recs[i].key]]
       /\ executed' = executed \o [i \in 1..Len(done) |->
                       [kind |-> done[i].kind, key |-> <<n>> \o done[i].key]]
       /\ page' = run.page
       /\ ops' = n
       /\ faults' = faults + Cardinality(F)
       /\ last' = Some([op |-> name, ret |-> run.ret,
                         info |-> Get(run, "info", None),
                         tried |-> Get(run, "tried", <<>>),
                         why |-> Get(run, "why", ""),
                         env |-> Get(run, "env", None)])
       /\ UNCHANGED <<start_time, end_time, now, stopped, atStop, genVars, attached, handles>>

ClickTargets == {"#add", "#old"}

do_navigate_to ==
    /\ ops < MaxOps
    /\ \E url \in SiteUrls : \E F \in FaultSets({<<"goto", url>>}) :
          Ran("navigate_to", F, navigate_to(page, url, F))

do_click ==
    /\ ops < MaxOps
    /\ \E selector \in ClickTargets :
       \E F \in FaultSets({<<"find", selector>>, <<"click", selector>>}) :
          Ran("click", F, click(page, selector, F))

do_fill_input ==
    /\ ops < MaxOps
    /\ \E selector \in {"input[name='q']"}, text \in Texts :
       \E F \in FaultSets({<<"find", selector>>, <<"fill", selector>>}) :
          Ran("fill_input", F, fill_input(page, selector, text, F))

SearchQueries == {"iPhone 17"}

do_execute_search ==
    /\ ops < MaxOps
    /\ \E search_query \in SearchQueries, ai \in AiReplies :
       \E F \in FaultSets(SearchFaultPoints(page)) :
          Ran("execute_search", F, execute_search(page, search_query, F, ai))

do_click_product_image ==
    /\ ops < MaxOps
    /\ \E product_name \in SearchQueries :
       \E F \in FaultSets(ImageFaultPoints(page)) :
          Ran("click_product_image", F, click_product_image(page, product_name, F))

\* the resolver called on the page, with what its collaborators did; ret is the
\* "found" entry of the dictionary it returned and info the dictionary itself
resolve(pg, F, ai) ==
    Let(find_search_box_universal(pg, F, ai), LAMBDA u :
        [evs |-> u.evs, ret |-> u.info.found, info |-> Some(u.info),
         page |-> u.page, tried |-> u.tried,
         env |-> Some([raising |-> F, ai |-> ai])])

do_find_search_box_universal ==
    /\ ops < MaxOps
    /\ \E ai \in AiReplies :
       \E F \in FaultSets(SearchFaultPoints(page)) :
          Ran("find_search_box_universal", F, resolve(page, F, ai))

\* the input elements a page's markup may hold
Input(type, id, name, placeholder, aria_label) ==
    [type |-> type, id |-> id, name |-> name,
     placeholder |-> placeholder, aria_label |-> aria_label]

InputPool == {
    Input(None, None, Some("q"), None, None),
    Input(Some("hidden"), Some("q"), Some("q"), None, None),
    Input(Some("text"), Some("email"), Some("email"), Some("E-mail"), None),
    Input(Some("text"), Some("Box"), Some("query"), None, None),
    Input(Some("search"), Some(""), Some("s"), None, Some("Search")),
    Input(Some("text"), None, Some(""), Some("Quick find"), None) }

MaxInputs == 2

Markups == UNION {[1..n -> InputPool] : n \in 0..MaxInputs}

\* the resolver on a page that matches no selector, whatever its markup holds
InitParse ==
    /\ TrackerInit /\ now = 0 /\ GenIdle
    /\ attached = FALSE
    /\ handles = InUse
    /\ page \in {[url |-> "https://z.test", at |-> "home", menu_open |-> FALSE,
                  markup |-> markup] : markup \in Markups}
    /\ executed = <<>>
    /\ ops = 0
    /\ faults = 0
    /\ last = None

\* the first call of the resolver on the page
do_find_search_box_on_markup ==
    /\ ops = 0
    /\ do_find_search_box_universal

ParseNext ==
    \/ start
    \/ do_find_search_box_on_markup

SpecParse == InitParse /\ [][ParseNext]_vars

\* execute_search on a page of apple.com that shows two of the search icons
InitIcons ==
    /\ TrackerInit /\ now = 0 /\ GenIdle
    /\ attached \in BOOLEAN
    /\ handles = InUse
    /\ page = Loaded("https://www.apple.com/store")
    /\ executed = <<>>
    /\ ops = 0
    /\ faults = 0
    /\ last = None

IconsNext ==
    \/ start
    \/ do_execute_search

SpecIcons == InitIcons /\ [][IconsNext]_vars

\* a browser session with a tracker attached or not
InitSession ==
    /\ TrackerInit /\ now = 0 /\ GenIdle
    /\ attached \in BOOLEAN
    /\ handles = InUse
    /\ page = BlankPage
    /\ executed = <<>>
    /\ ops = 0
    /\ faults = 0
    /\ last = None

SessionNext ==
    \/ start
    \/ stop
    \/ do_navigate_to
    \/ do_click
    \/ do_fill_input
    \/ do_execute_search
    \/ do_click_product_image

SpecSession == InitSession /\ [][SessionNext]_vars

\* the resolver on the pages of the pool
ResolveNext ==
    \/ start
    \/ do_navigate_to
    \/ do_find_search_box_universal

SpecResolve == InitSession /\ [][ResolveNext]_vars

\* click_product_image on a results page of the generated trees
InitImage ==
    /\ TrackerInit /\ now = 0 /\ GenIdle
    /\ attached \in BOOLEAN
    /\ handles = InUse
    /\ page \in {[url |-> "https://x.test", at |-> "results", menu_open |-> FALSE,
                  dom |-> dom] : dom \in Trees}
    /\ executed = <<>>
    /\ ops = 0
    /\ faults = 0
    /\ last = None

\* the call, with the product name it was given; no page call raises
click_product_image_on(pg, product_name) ==
    Let(click_product_image(pg, product_name, {}), LAMBDA r :
        [evs |-> r.evs, ret |-> r.ret, page |-> r.page,
         env |-> Some([name |-> product_name])])

do_click_product_image_on ==
    /\ ops < MaxOps
    /\ \E product_name \in SearchQueries :
          Ran("click_product_image", {}, click_product_image_on(page, product_name))

ImageNext ==
    \/ start
    \/ do_click_product_image_on

SpecImage == InitImage /\ [][ImageNext]_vars

\* click_product_image on a results page whose product name is a link
InitLink ==
    /\ TrackerInit /\ now = 0 /\ GenIdle
    /\ attached \in BOOLEAN
    /\ handles = InUse
    /\ page \in {[url |-> "https://x.test", at |-> "results", menu_open |-> FALSE,
                  dom |-> dom] : dom \in LinkTrees}
    /\ executed = <<>>
    /\ ops = 0
    /\ faults = 0
    /\ last = None

SpecLink == InitLink /\ [][ImageNext]_vars

-----------------------------------------------------------------------------
(* The execute boundaries of the agents *)

\* {"status": status, "data": ..., "message": message}; the data are left out
result(status, message) == [status |-> status, message |-> message]

\* the operation returned this dictionary
Returns(evs, pg, status, message) ==
    [evs |-> evs, page |-> pg, ret |-> TRUE, info |-> Some(result(status, message))]

\* the operation raised
Raises(evs, pg) == [evs |-> evs, page |-> pg, ret |-> FALSE, info |-> None]

\* a body without a handler: what it raises reaches the caller
propagated(run) == run

\* try: body / except Exception as e: return {"status": "error", "data": {},
\* "message": str(e)}
except_Exception(run) ==
    IF run.ret THEN run
    ELSE [run EXCEPT !.ret = TRUE, !.info = Some(result("error", "str(e)"))]

\* {"status": "success" if success else "error", ...,
\*  "message": f"{verb} {'successful' if success else 'failed'}"}
reported(verb, r) ==
    Returns(r.evs, r.page, IF r.ret THEN "success" ELSE "error",
            verb \o (IF r.ret THEN " successful" ELSE " failed"))

\* str(action) of task.get("action")
str_opt(v) == IF v = None THEN "None" ELSE v[1]

\* a task: a dictionary with an action, an argument (url or selector), a text
\* and a query, each there or not; None is a task that is no dictionary
Task(action, arg, text, query) ==
    Some([action |-> action, arg |-> arg, text |-> text, query |-> query])

\* WebNavigatorAgent.execute(task)
navigator_execute(pg, task, F) ==
    except_Exception(
        IF task = None THEN Raises(<<>>, pg)
        ELSE LET t == task[1]
             IN IF t.action = Some("navigate")
                THEN reported("Navigation", navigate_to(pg, t.arg[1], F))
                ELSE IF t.action = Some("click")
                THEN reported("Click", click(pg, t.arg[1], F))
                ELSE IF t.action = Some("fill")
                THEN reported("Fill", fill_input(pg, t.arg[1], t.text[1], F))
                ELSE IF t.action = Some("get_content")
                THEN Returns(<<>>, pg, "success", "Content retrieved successfully")
                ELSE Returns(<<>>, pg, "error", "Unknown action: " \o str_opt(t.action)))

\* for selector in selectors: if [selector and] await self.web_navigator.click(selector)
RECURSIVE click_first(_, _, _)
click_first(pg, selectors, F) ==
    IF selectors = <<>> THEN [evs |-> <<>>, ret |-> FALSE, page |-> pg]
    ELSE IF Head(selectors) = "" THEN click_first(pg, Tail(selectors), F)
    ELSE Let(click(pg, Head(selectors), F), LAMBDA c :
             IF c.ret THEN c
             ELSE Let(click_first(c.page, Tail(selectors), F), LAMBDA r :
                      [evs |-> c.evs \o r.evs, ret |-> r.ret, page |-> r.page]))

\* what the model answers to find_add_to_cart_strategy: a dictionary with the
\* selector or without it, or JSON that is no dictionary (None)
Strategies == {None, Some(""), Some("#add"), Some("#old")}

\* CartCheckoutAgent.add_to_cart()
add_to_cart(pg, strategy, F) ==
    except_Exception(
        IF strategy = None THEN Raises(<<>>, pg)
        ELSE Let(click_first(pg, << strategy[1],
                        "button:has-text('Add to Cart')",
                        "button:has-text('Add to Bag')",
                        "[data-testid*='add-to-cart']",
                        "button[aria-label*='Add to Cart']",
                        ".add-to-cart",
                        "#add-to-cart" >>, F), LAMBDA r :
                 IF ~r.ret
                 THEN Returns(r.evs, r.page, "error",
                              "Could not find or click 'Add to Cart' button")
                 ELSE Returns(r.evs, r.page, "success", "Product added to cart")))

\* CartCheckoutAgent.navigate_to_cart()
navigate_to_cart(pg, F) ==
    except_Exception(
        Let(click_first(pg, << "a:has-text('Cart')",
                           "[aria-label*='cart']",
                           ".cart-icon",
                           "#cart",
                           "a[href*='cart']" >>, F), LAMBDA r :
            IF r.ret THEN Returns(r.evs, r.page, "success", "Navigated to cart")
            ELSE Returns(r.evs, r.page, "error", "Could not navigate to cart")))

\* CartCheckoutAgent.proceed_to_checkout()
proceed_to_checkout(pg, F) ==
    except_Exception(
        Let(click_first(pg, << "button:has-text('Checkout')",
                           "button:has-text('Proceed to Checkout')",
                           "a:has-text('Checkout')",
                           "[data-testid*='checkout']",
                           "button[aria-label*='checkout']" >>, F), LAMBDA r :
            IF r.ret THEN Returns(r.evs, r.page, "success", "Proceeded to checkout")
            ELSE Returns(r.evs, r.page, "error", "Could not find checkout button")))

\* CartCheckoutAgent.place_order()
place_order(pg, F) ==
    except_Exception(
        Let(click_first(pg, << "button:has-text('Place Order')",
                           "button:has-text('Complete Order')",
                           "button:has-text('Buy Now')",
                           "[data-testid*='place-order']",
                           "button[type='submit']:has-text('Order')" >>, F), LAMBDA r :
            IF r.ret THEN Returns(r.evs, r.page, "success", "Order placed successfully")
            ELSE Returns(r.evs, r.page, "error",
                         "Could not find place order button. Note: Actual payment processing may require additional steps.")))

\* the operation with the events of the operations before it
After(evs, r) == [r EXCEPT !.evs = evs \o r.evs]

\* action == "full_checkout": add to cart, navigate to the cart, proceed
full_checkout(pg, strategy, F) ==
    Let(add_to_cart(pg, strategy, F), LAMBDA a :
        IF ~a.ret THEN a
        ELSE IF a.info[1].status # "success"
        THEN Returns(a.evs, a.page, "error", "Failed at add to cart step")
        ELSE Let(After(a.evs, navigate_to_cart(a.page, F)), LAMBDA n :
             IF ~n.ret THEN n ELSE
             Let(After(n.evs, proceed_to_checkout(n.page, F)), LAMBDA p :
                 IF ~p.ret THEN p
                 ELSE IF p.info[1].status # "success"
                 THEN Returns(p.evs, p.page, "partial",
                              "Reached checkout but may need manual completion")
                 ELSE Returns(p.evs, p.page, "success",
                              "Checkout process initiated. Note: Final order placement may require payment information."))))

\* what the model answers to fill_checkout_form: the selectors of the form
\* fields it names, or JSON that is no dictionary (None)
Forms ==
    {None,
     Some([email |-> "input[name='q']", continue_button |-> "#add"]),
     Some([email |-> "#old", continue_button |-> ""])}

\* CartCheckoutAgent.fill_checkout_form(): the default user information has
\* an email; the other fields are not among the selectors of the pool
fill_checkout_form(pg, form, F) ==
    except_Exception(
        IF form = None THEN Raises(<<>>, pg)
        ELSE Let(IF form[1].email = "" THEN [evs |-> <<>>, ret |-> FALSE, page |-> pg]
                 ELSE fill_input(pg, form[1].email, "test@example.com", F), LAMBDA f :
             Let(IF form[1].continue_button = ""
                 THEN [evs |-> <<>>, ret |-> FALSE, page |-> f.page]
                 ELSE click(f.page, form[1].continue_button, F), LAMBDA c :
                 Returns(f.evs \o c.evs, c.page, "success",
                         "Filled " \o (IF f.ret THEN "1" ELSE "0") \o " form fields"))))

\* CartCheckoutAgent.execute(task)
cart_checkout_execute(pg, task, strategy, form, F) ==
    except_Exception(
        IF task = None THEN Raises(<<>>, pg)
        ELSE LET action == task[1].action
             IN IF action = Some("add_to_cart") THEN add_to_cart(pg, strategy, F)
                ELSE IF action = Some("navigate_to_cart") THEN navigate_to_cart(pg, F)
                ELSE IF action = Some("proceed_to_checkout") THEN proceed_to_checkout(pg, F)
                ELSE IF action = Some("fill_checkout_form")
                THEN fill_checkout_form(pg, form, F)
                ELSE IF action = Some("place_order") THEN place_order(pg, F)
                ELSE IF action = Some("full_checkout") THEN full_checkout(pg, strategy, F)
                ELSE Returns(<<>>, pg, "error", "Unknown action: " \o str_opt(action)))

\* the upper-case form of one character
UpperChar(c) ==
    IF \E i \in 1..26 : SubSeq(LowerLetters, i, i) = c
    THEN LET i == CHOOSE j \in 1..26 : SubSeq(LowerLetters, j, j) = c
         IN SubSeq(UpperLetters, i, i)
    ELSE c

IsLetter(c) == LowerChar(c) # c \/ UpperChar(c) # c

\* s.title(): a letter after anything but a letter in upper case, the other
\* letters in lower case
RECURSIVE title_from(_, _)
title_from(s, i) ==
    IF i > Len(s) THEN ""
    ELSE LET c == SubSeq(s, i, i)
         IN (IF i > 1 /\ IsLetter(SubSeq(s, i - 1, i - 1)) THEN LowerChar(c) ELSE UpperChar(c))
            \o title_from(s, i + 1)

title(s) == title_from(s, 1)

\* s.capitalize()
capitalize(s) == IF s = "" THEN "" ELSE UpperChar(SubSeq(s, 1, 1)) \o lower(Tail(s))

\* sep.join(words)
RECURSIVE join(_, _)
join(sep, words) ==
    IF words = <<>> THEN ""
    ELSE IF Len(words) = 1 THEN words[1]
    ELSE words[1] \o sep \o join(sep, Tail(words))

\* the characters of \s and of \d
Whitespace == {" ", "\t", "\n", "\r", "\f"}
Digits == {"0", "1", "2", "3", "4", "5", "6", "7", "8", "9"}

\* the end of the longest run of characters of the class from position i on
RECURSIVE run_end(_, _, _)
run_end(s, i, class) ==
    IF i > Len(s) \/ SubSeq(s, i, i) \notin class THEN i ELSE run_end(s, i + 1, class)

\* a pattern is a sequence of literals and of classes taken one or more
\* times; the position after its match at position i, 0 when there is none
RECURSIVE match_at(_, _, _)
match_at(s, i, pattern) ==
    IF pattern = <<>> THEN i
    ELSE LET a == Head(pattern)
         IN IF "lit" \in DOMAIN a
            THEN IF i + Len(a.lit) - 1 <= Len(s) /\ SubSeq(s, i, i + Len(a.lit) - 1) = a.lit
                 THEN match_at(s, i + Len(a.lit), Tail(pattern))
                 ELSE 0
            ELSE IF run_end(s, i, a.class) = i THEN 0
                 ELSE match_at(s, run_end(s, i, a.class), Tail(pattern))

\* re.search(pattern, s): the leftmost match, boxed, with its first and its
\* last position
re_search(pattern, s) ==
    LET starts == {i \in 1..Len(s) : match_at(s, i, pattern) # 0}
    IN IF starts = {} THEN None
       ELSE LET i == CHOOSE j \in starts : \A k \in starts : j <= k
            IN Some([from |-> i, to |-> match_at(s, i, pattern) - 1])

\* r'iphone\s+(\d+)' and r'(samsung\s+galaxy\s+s\d+)'
iphone_pattern == << [lit |-> "iphone"], [class |-> Whitespace], [class |-> Digits] >>
galaxy_pattern ==
    << [lit |-> "samsung"], [class |-> Whitespace], [lit |-> "galaxy"],
       [class |-> Whitespace], [lit |-> "s"], [class |-> Digits] >>

\* group(1) of the iphone pattern: the digits at the end of the match
iphone_number(s, m) ==
    SubSeq(s, match_at(s, m.from, SubSeq(iphone_pattern, 1, 2)), m.to)

\* the name a product is searched under: "iPhone 15 Pro 256GB white" is
\* searched as "iPhone 15", other products under their first three words
simplified(name) ==
    LET l == lower(name)
        words == split(name)
    IN IF Contains("iphone", l)
       THEN Let(re_search(iphone_pattern, l), LAMBDA m :
                IF m # None THEN "iPhone " \o iphone_number(l, m[1]) ELSE "iPhone")
       ELSE IF Contains("samsung", l) \/ Contains("galaxy", l)
       THEN Let(re_search(galaxy_pattern, l), LAMBDA m :
                IF m # None THEN title(SubSeq(l, m[1].from, m[1].to))
                ELSE join(" ", SubSeq(words, 1, IF Len(words) < 3 THEN Len(words) ELSE 3)))
       ELSE IF Len(words) >= 3 THEN join(" ", SubSeq(words, 1, 3)) ELSE name

\* ProductSearchAgent._simple_parse_query(query); the specifications of the
\* product are left out
simple_parse_query(query) ==
    LET l == lower(query)
        brands == << "apple", "samsung", "google", "sony", "lg", "nike", "adidas" >>
        named == {i \in 1..Len(brands) : Contains(brands[i], l)}
    IN [product_name |->
            Let(re_search(iphone_pattern, l), LAMBDA m :
                IF m # None THEN Some("iPhone " \o iphone_number(l, m[1]) \o " Pro")
                ELSE Some(query)),
        brand |-> IF named = {} THEN None
                  ELSE Some(capitalize(brands[CHOOSE i \in named : \A j \in named : i <= j])),
        website |-> None,
        search_query |-> Some(simplified(query))]

\* what the model answers to extract_product_specs: an error, JSON that is no
\* dictionary (None), or a dictionary of specifications
SpecReplies == {
    [kind |-> "error", payload |-> None],
    [kind |-> "reply", payload |-> None],
    [kind |-> "reply",
     payload |-> Some([product_name |-> Some("iPhone 17 Pro 256GB"), brand |-> Some("Apple"),
                       website |-> None, search_query |-> None])],
    [kind |-> "reply",
     payload |-> Some([product_name |-> Some("iPhone 17"), brand |-> None,
                       website |-> Some("https://x.test"), search_query |-> None])],
    [kind |-> "reply",
     payload |-> Some([product_name |-> None, brand |-> None,
                       website |-> Some("https://y.test"), search_query |-> None])] }

\* ProductSearchAgent.extract_product_specs(user_query)
extract_product_specs(user_query, reply) ==
    IF reply.kind = "error" THEN Some(simple_parse_query(user_query)) ELSE reply.payload

\* ProductSearchAgent.determine_website(product_specs): the website, or None
determine_website(product_specs) ==
    LET brand == lower(IF product_specs.brand = None THEN "" ELSE product_specs.brand[1])
        product_name == lower(IF product_specs.product_name = None THEN ""
                              ELSE product_specs.product_name[1])
        website_map ==
            << <<"apple", "https://www.apple.com">>, <<"samsung", "https://www.samsung.com">>,
               <<"google", "https://store.google.com">>, <<"sony", "https://www.sony.com">>,
               <<"lg", "https://www.lg.com">>, <<"nike", "https://www.nike.com">>,
               <<"adidas", "https://www.adidas.com">> >>
        mapped == {i \in 1..Len(website_map) :
                      Contains(website_map[i][1], brand)
                      \/ Contains(website_map[i][1], product_name)}
    IN IF product_specs.website # None /\ product_specs.website # Some("")
       THEN product_specs.website
       ELSE IF mapped # {}
       THEN Some(website_map[CHOOSE i \in mapped : \A j \in mapped : i <= j][2])
       ELSE IF \E word \in {"iphone", "ipad", "mac", "apple"} : Contains(word, product_name)
       THEN Some("https://www.apple.com")
       ELSE None

\* what find_product_elements returned: the products the model or the links
\* of the markup name, or a list of things that are no dictionaries (None)
ProductLists == {
    None,
    Some(<<>>),
    Some(<< [link |-> Some("https://y.test"), matches_specs |-> TRUE],
            [link |-> None, matches_specs |-> FALSE] >>),
    Some(<< [link |-> None, matches_specs |-> FALSE] >>) }

\* matching_products if matching_products else products[:5]
result_products(products) ==
    LET matches(p) == p.matches_specs
    IN IF SelectSeq(products, matches) # <<>> THEN SelectSeq(products, matches)
       ELSE SubSeq(products, 1, IF Len(products) < 5 THEN Len(products) ELSE 5)

\* steps 5 and 6 of ProductSearchAgent.execute: the image of the product is
\* clicked after a search, the products of the page are listed otherwise
open_product(s, website, search_query, products, F) ==
    Let(IF s.ret THEN After(s.evs, click_product_image(s.page, search_query, F))
        ELSE IF Contains("apple.com", lower(website)) /\ Contains("iphone", lower(search_query))
        THEN After(s.evs, [navigate_to(s.page, website \o "/us/shop/goto/iphone", F)
                              EXCEPT !.ret = FALSE])
        ELSE [evs |-> s.evs, ret |-> FALSE, page |-> s.page], LAMBDA image :
        IF image.ret
        THEN Returns(image.evs, image.page, "success",
                     "Successfully navigated to product page for " \o search_query)
        ELSE IF products = None THEN Raises(image.evs, image.page)
        ELSE Returns(image.evs, image.page, "success",
                     "Found " \o ToString(Len(result_products(products[1]))) \o " products")
             @@ [products |-> result_products(products[1])])

\* steps 3 and 4 of ProductSearchAgent.execute: the website is opened and
\* the product searched under its simplified name
search_website(pg, website, specs, products, ai, F) ==
    Let(navigator_execute(pg, Task(Some("navigate"), Some(website), None, None), F),
        LAMBDA nav :
        IF ~nav.ret THEN nav
        ELSE IF nav.info[1].status # "success"
        THEN Returns(nav.evs, nav.page, "error", "Failed to navigate to website: " \o website)
        ELSE IF specs.search_query \in {None, Some("")} /\ specs.product_name = None
        THEN Raises(nav.evs, nav.page)
        ELSE Let(IF specs.search_query \in {None, Some("")}
                 THEN simplified(specs.product_name[1])
                 ELSE specs.search_query[1], LAMBDA search_query :
                 open_product(After(nav.evs, execute_search(nav.page, search_query, F, ai)),
                              website, search_query, products, F)))

\* ProductSearchAgent.execute(task)
product_search_execute(pg, task, reply, products, ai, F) ==
    except_Exception(
        IF task = None THEN Raises(<<>>, pg)
        ELSE Let(extract_product_specs(
                     IF task[1].query = None THEN "" ELSE task[1].query[1], reply),
                 LAMBDA product_specs :
             IF product_specs = None THEN Raises(<<>>, pg)
             ELSE Let(determine_website(product_specs[1]), LAMBDA website :
                  IF website # None
                  THEN search_website(pg, website[1], product_specs[1], products, ai, F)
                  ELSE IF \E word \in {"iphone", "ipad", "mac"} :
                             product_specs[1].product_name # None
                             /\ Contains(word, lower(product_specs[1].product_name[1]))
                  THEN search_website(pg, "https://www.apple.com", product_specs[1],
                                      products, ai, F)
                  ELSE Returns(<<>>, pg, "error",
                               "Could not determine website for the product."))))

\* the plan plan_task falls back on
default_plan ==
    << [step_number |-> 1, agent |-> "ProductSearch", action |-> "search_product"],
       [step_number |-> 2, agent |-> "CartCheckout", action |-> "add_to_cart"],
       [step_number |-> 3, agent |-> "CartCheckout", action |-> "full_checkout"] >>

\* what the model answers to plan_task: an error, JSON that is no dictionary
\* (None), or the steps of a plan
PlanReplies == {
    [kind |-> "error", payload |-> None],
    [kind |-> "reply", payload |-> None],
    [kind |-> "reply",
     payload |-> Some(<< [step_number |-> 1, agent |-> "WebNavigator", action |-> "get_content"],
                         [step_number |-> 2, agent |-> "Shipping", action |-> "send"],
                         [step_number |-> 3, agent |-> "CartCheckout", action |-> "place_order"] >>)],
    [kind |-> "reply",
     payload |-> Some(<< [step_number |-> 3, agent |-> "Shipping", action |-> "send"],
                         [step_number |-> 4, agent |-> "CartCheckout", action |-> "navigate_to_cart"] >>)] }

\* OrchestratorAgent.plan_task(user_query)
plan_task(reply) == IF reply.kind = "error" THEN Some(default_plan) ELSE reply.payload

\* what the collaborators of the agents answer in one run
Answers ==
    [specs : SpecReplies, products : ProductLists, ai : AiReplies,
     strategy : Strategies, form : Forms]

\* one step of the plan routed to its agent
routed(pg, step, user_query, answers, F) ==
    IF step.agent = "ProductSearch"
    THEN Let(product_search_execute(pg, Task(Some(step.action), None, None, Some(user_query)),
                                    answers.specs, answers.products, answers.ai, F),
             LAMBDA r :
             IF r.ret /\ r.info[1].status = "success" /\ Get(r, "products", <<>>) # <<>>
                /\ r.products[1].link # None
             THEN Let(navigator_execute(r.page,
                          Task(Some("navigate"), r.products[1].link, None, None), F),
                      LAMBDA nav : IF ~nav.ret THEN After(r.evs, nav)
                                   ELSE [r EXCEPT !.evs = r.evs \o nav.evs, !.page = nav.page])
             ELSE r)
    ELSE IF step.agent = "WebNavigator"
    THEN navigator_execute(pg, Task(Some(step.action), None, None, None), F)
    ELSE IF step.agent = "CartCheckout"
    THEN cart_checkout_execute(pg, Task(Some(step.action), None, None, None),
                               answers.strategy, answers.form, F)
    ELSE Returns(<<>>, pg, "error", "Unknown agent: " \o step.agent)

\* for step in steps: the steps run one after the other, up to a step among
\* the first two that ends in an error
RECURSIVE run_steps(_, _, _, _, _, _)
run_steps(pg, steps, user_query, answers, F, completed) ==
    IF steps = <<>> THEN [evs |-> <<>>, ret |-> TRUE, page |-> pg, completed |-> completed,
                          results |-> <<>>]
    ELSE Let(routed(pg, Head(steps), user_query, answers, F), LAMBDA r :
             IF ~r.ret THEN [evs |-> r.evs, ret |-> FALSE, page |-> r.page,
                             completed |-> completed, results |-> <<>>]
             ELSE IF r.info[1].status = "error" /\ Head(steps).step_number <= 2
             THEN [evs |-> r.evs, ret |-> TRUE, page |-> r.page, completed |-> completed + 1,
                   results |-> << r.info[1].status >>]
             ELSE Let(run_steps(r.page, Tail(steps), user_query, answers, F, completed + 1),
                      LAMBDA rest : [rest EXCEPT !.evs = r.evs \o rest.evs,
                                                 !.results = << r.info[1].status >> \o rest.results]))

\* "data": {..., "results": results, ...}: the status of each step that ran,
\* in the dictionary the operation returned
with_results(run, results) ==
    IF run.info = None THEN run
    ELSE [run EXCEPT !.info = Some(run.info[1] @@ [results |-> results])]

\* OrchestratorAgent.execute_plan(plan, user_query)
execute_plan(pg, plan, user_query, answers, F) ==
    IF plan = None THEN with_results(except_Exception(Raises(<<>>, pg)), <<>>)
    ELSE Let(run_steps(pg, plan[1], user_query, answers, F, 0), LAMBDA r :
             with_results(
                 except_Exception(
                     IF ~r.ret THEN Raises(r.evs, r.page)
                     ELSE Returns(r.evs, r.page, "success",
                                  "Completed " \o ToString(r.completed) \o " steps")),
                 r.results))

\* the retry loop of execute: each of the three attempts returns True, returns
\* False or raises, and the attempts end with the first that returns True
browser_initialized(attempts) == \E i \in 1..3 : attempts[i] = "ready"

\* _cleanup_browser with the four closes under one try: a close that raises
\* leaves its handle and the handles after it as they are
RECURSIVE cleanup_from_one_try(_, _, _)
cleanup_from_one_try(hs, i, closing) ==
    IF i > Len(HandleNames) THEN hs
    ELSE IF ~hs[HandleNames[i]] THEN cleanup_from_one_try(hs, i + 1, closing)
    ELSE IF HandleNames[i] \in closing THEN hs
    ELSE cleanup_from_one_try([hs EXCEPT ![HandleNames[i]] = FALSE], i + 1, closing)

cleanup_browser_one_try(hs, closing) == cleanup_from_one_try(hs, 1, closing)

\* _cleanup_browser, one handle after the other: a handle that is set is
\* closed, an error of its close is passed over, and the handle is set to None
RECURSIVE cleanup_from(_, _, _)
cleanup_from(hs, i, closing) ==
    IF i > Len(HandleNames) THEN hs
    ELSE IF ~hs[HandleNames[i]] THEN cleanup_from(hs, i + 1, closing)
    ELSE cleanup_from([hs EXCEPT ![HandleNames[i]] = FALSE], i + 1, closing)

\* WebNavigatorAgent._cleanup_browser(); closing: the closes that raise
cleanup_browser(hs, closing) == cleanup_from(hs, 1, closing)

\* WebNavigatorAgent.initialize_browser(): the old handles are cleaned up,
\* then playwright, browser, context and page are set one after the other;
\* a failure is followed by a cleanup, and an attempt that is left by an error
\* nothing catches keeps what it had set (here playwright and the browser)
initialize_browser(hs, outcome) ==
    IF outcome = "ready" THEN InUse
    ELSE IF outcome = "failed" THEN cleanup_browser(InUse, {})
    ELSE [cleanup_browser(hs, {}) EXCEPT !["playwright"] = TRUE, !["browser"] = TRUE]

\* the handles after the retry loop of execute
RECURSIVE after_attempts(_, _, _)
after_attempts(hs, attempts, i) ==
    IF i > Len(attempts) THEN hs
    ELSE IF attempts[i] = "ready" THEN initialize_browser(hs, "ready")
    ELSE after_attempts(initialize_browser(hs, attempts[i]), attempts, i + 1)

\* the handles when execute reaches its finally clause
browser_before_close(hs, task, attempts) ==
    IF task = None \/ task[1].query \in {None, Some("")} THEN hs
    ELSE after_attempts(hs, attempts, 1)

\* finally: await self.web_navigator.close()
finally_close(run, hs, closing) ==
    run @@ [handles |-> cleanup_browser(hs, closing), closing |-> closing]

\* f"test_generated_{timestamp}.py" with the timestamp of the clock value t
script_filename(t) == "test_generated_20260111_1905" \o Pad2(t) \o ".py"

\* an execute of the orchestrator that returned or raised after these calls
\* of the tracker and of the generator
Session(r, session) == r @@ [session |-> session]

\* OrchestratorAgent.execute(task): the tracker is started, the browser
\* initialized, the task planned, the plan executed, the tracker stopped and
\* the script generated and written
orchestrator_execute(task, attempts, plan_reply, answers, written, t, F) ==
    except_Exception(
        IF task = None THEN Session(Raises(<<>>, BlankPage), <<>>)
        ELSE IF task[1].query \in {None, Some("")}
        THEN Session(Returns(<<>>, BlankPage, "error", "No query provided"), <<>>)
        ELSE IF ~browser_initialized(attempts)
        THEN Session(Returns(<<>>, BlankPage, "error",
                             "Failed to initialize browser after multiple attempts. Please ensure Playwright is properly installed."),
                     << "start" >>)
        ELSE Let(execute_plan(BlankPage, plan_task(plan_reply), task[1].query[1], answers, F),
                 LAMBDA r :
                 IF ~r.ret THEN Session(r, << "start" >>)
                 ELSE IF ~written
                         \/ generate_result(add_all(<<>>, SelectSeq(r.evs, IsRec), t),
                                            task[1].query[1], t).raised
                 THEN Session(Raises(r.evs, r.page), << "start", "stop", "generate" >>)
                 ELSE Session(with_results(
                                  Returns(r.evs, r.page, r.info[1].status,
                                          "Orchestration completed with status: " \o r.info[1].status
                                          \o ". Test script saved to " \o script_filename(t)),
                                  r.info[1].results),
                              << "start", "stop", "generate", "write" >>)))

\* the tasks the boundaries are given
NavigatorTasks ==
    {None, Task(None, None, None, None), Task(Some("dance"), None, None, None),
     Task(Some("get_content"), None, None, None)}
    \cup {Task(Some("navigate"), Some(url), None, None) : url \in SiteUrls}
    \cup {Task(Some("click"), Some(selector), None, None) : selector \in ClickTargets}
    \cup {Task(Some("fill"), Some("input[name='q']"), Some(text), None) : text \in Texts}

CartTasks ==
    {None, Task(None, None, None, None)}
    \cup {Task(Some(action), None, None, None) :
            action \in {"add_to_cart", "navigate_to_cart", "proceed_to_checkout",
                        "fill_checkout_form", "place_order", "full_checkout", "pay"}}

QueryTasks ==
    {None, Task(None, None, None, None)}
    \cup {Task(None, None, None, Some(query)) : query \in {"", "iPhone 17"}}

\* what the model answers to the resolver in a product search
SearchAnswers == {ai \in AiReplies : ai.kind = "error" \/ ai.fence = "json"}

\* the page calls of a task of the navigator that may raise in a run
TaskFaultPoints(task) ==
    IF task = None \/ task[1].arg = None THEN {}
    ELSE {<<f, task[1].arg[1]>> : f \in {"goto", "find", "click", "fill"}}

\* the page calls of the cart agent that may raise in a run
CartFaultPoints ==
    {<<f, selector>> : f \in {"find", "click"},
                       selector \in {"#add", "#cart", "a:has-text('Checkout')"}}

\* the page calls of a product search that may raise in a run
ProductFaultPoints ==
    {<<"goto", url>> : url \in {"https://www.apple.com", "https://x.test"}}
    \cup {<<"icon_click", AppleIcon>>, <<"input_fill", AppleInput>>,
          <<"g_fill", "input[name='q']">>, <<"p_load", "https://x.test">>}

\* a boundary was called with a task
Called(name, task, F, run) == Ran(name, F, run @@ [env |-> Some([task |-> task])])

do_navigator_execute ==
    /\ ops < MaxCalls
    /\ \E task \in NavigatorTasks : \E F \in FaultSets(TaskFaultPoints(task)) :
          Called("WebNavigatorAgent.execute", task, F, navigator_execute(page, task, F))

\* the answers a task of the cart agent asks for, and an answer that is
\* never asked for
AskedOf(task, asking, answers) ==
    IF task # None /\ task[1].action # None /\ task[1].action[1] \in asking
    THEN answers ELSE {None}

do_cart_checkout_execute ==
    /\ ops < MaxCalls
    /\ \E task \in CartTasks :
       \E strategy \in AskedOf(task, {"add_to_cart", "full_checkout"}, Strategies),
          form \in AskedOf(task, {"fill_checkout_form"}, Forms) :
       \E F \in FaultSets(CartFaultPoints) :
          Called("CartCheckoutAgent.execute", task, F,
                 cart_checkout_execute(page, task, strategy, form, F))

do_product_search_execute ==
    /\ ops < MaxCalls
    /\ \E task \in QueryTasks, reply \in SpecReplies, products \in ProductLists,
          ai \in SearchAnswers :
       \E F \in FaultSets(ProductFaultPoints) :
          Called("ProductSearchAgent.execute", task, F,
                 product_search_execute(page, task, reply, products, ai, F))

\* the orchestrator ran: start() emptied the log and the calls of its agents
\* filled it, stop() sealed it, the generator was constructed with it and
\* generated the script; the browser is closed in the end
Orchestrated(task, F, run) ==
    LET recs == SelectSeq(run.evs, IsRec)
        done == SelectSeq(run.evs, IsExec)
        n == ops + 1
        has(call) == \E i \in 1..Len(run.session) : run.session[i] = call
    IN /\ IF has("start")
          THEN /\ start_time' = Some(now)
               /\ actions' = add_all(<<>>, recs, now)
               /\ calls' = [i \in 1..Len(recs) |->
                               [action_type |-> recs[i].action_type,
                                kwargs |-> recs[i].kwargs, of |-> <<n>> \o recs[i].key]]
               /\ executed' = [i \in 1..Len(done) |->
                                  [kind |-> done[i].kind, key |-> <<n>> \o done[i].key]]
               /\ stopped' = has("stop")
               /\ end_time' = IF has("stop") THEN Some(now) ELSE end_time
               /\ atStop' = IF has("stop") THEN actions' ELSE <<>>
          ELSE UNCHANGED <<trackerVars, executed>>
       /\ IF has("generate")
          THEN /\ gen_actions' = actions'
               /\ aliased' = FALSE
               /\ gen_query' = task[1].query[1]
               /\ script' = Some(generate_result(actions', task[1].query[1], now))
               /\ script_prev' = script
               /\ replay' = None
          ELSE UNCHANGED genVars
       /\ page' = BlankPage
       /\ ops' = n
       /\ faults' = faults + Cardinality(F)
       /\ last' = Some([op |-> "OrchestratorAgent.execute", ret |-> run.ret,
                         info |-> run.info, tried |-> run.session, why |-> "",
                         env |-> Some([task |-> task, closing |-> run.closing])])
       /\ handles' = run.handles
       /\ UNCHANGED <<now, attached>>

\* what initialize_browser does at the three attempts of an execute, what
\* the collaborators answer and the page calls that raise
OrchestratorAttempts ==
    {<<"ready", "ready", "ready">>, <<"failed", "raised", "ready">>,
     <<"failed", "failed", "failed">>, <<"raised", "failed", "raised">>}

OrchestratorAnswers ==
    {a \in Answers : /\ a.ai \in SearchAnswers
                     /\ a.strategy \in {None, Some("#add")}
                     /\ a.form = None}

OrchestratorFaultPoints ==
    {<<"goto", "https://www.apple.com">>, <<"g_fill", "input[name='q']">>,
     <<"click", "#add">>}

\* answers that are never asked for
Unasked ==
    [plan |-> [kind |-> "error", payload |-> None],
     answers |-> CHOOSE a \in OrchestratorAnswers : TRUE]

\* the closes that raise in the cleanup at the end of an execute, drawn for
\* the executes of the default plan in which no page call raises
Closings(plan_reply, F) ==
    IF plan_reply = Unasked.plan /\ F = {}
    THEN {{}, {"page"}, {"context", "browser"}, {"page", "context", "browser", "playwright"}}
    ELSE {{}}

\* main.py: the orchestrator is constructed and its execute called once
do_orchestrator_execute ==
    /\ ops = 0
    /\ \E task \in QueryTasks, attempts \in OrchestratorAttempts :
          IF task = None \/ task[1].query \in {None, Some("")}
             \/ ~browser_initialized(attempts)
          THEN Orchestrated(task, {},
                   finally_close(
                       orchestrator_execute(task, attempts, Unasked.plan, Unasked.answers,
                                            TRUE, now, {}),
                       browser_before_close(handles, task, attempts), {}))
          ELSE \E plan_reply \in PlanReplies, answers \in OrchestratorAnswers,
                  written \in BOOLEAN :
               \E F \in FaultSets(OrchestratorFaultPoints) :
               \E closing \in Closings(plan_reply, F) :
                  Orchestrated(task, F,
                      finally_close(
                          orchestrator_execute(task, attempts, plan_reply, answers, written,
                                               now, F),
                          browser_before_close(handles, task, attempts), closing))

\* a fresh orchestrator with its tracker and its agents
InitOrchestrator == TrackerInit /\ now = 0 /\ GenIdle /\ AgentIdle

OrchestratorNext ==
    \/ do_navigator_execute
    \/ do_cart_checkout_execute
    \/ do_product_search_execute
    \/ do_orchestrator_execute

SpecOrchestrator == InitOrchestrator /\ [][OrchestratorNext]_vars

-----------------------------------------------------------------------------
(* The session against the log *)

\* the positions of the log that hold the record of an interaction
RecordOf(e) ==
    {k \in DOMAIN get_actions :
        /\ k \in DOMAIN calls
        /\ calls[k].of = e.key
        /\ Payload(get_actions[k]) = Asked(calls[k])}

Interactions == {"navigate", "click", "fill", "press", "wait"}

\* C3: with a tracker attached, every interaction completed on the page
\* since the log was reset (navigation, click, fill, key press, load wait)
\* has its record in the log, whichever agent operation made it.
C3_EveryInteractionRecorded ==
    attached =>
        \A i \in DOMAIN executed :
            executed[i].kind \in Interactions => RecordOf(executed[i]) # {}

\* C4: the log keeps the order of execution: when interaction A completed
\* (or was slept) before interaction B, every record of A stands before
\* every record of B in get_actions().
C4_LogOrderIsExecutionOrder ==
    \A i, j \in DOMAIN executed :
        i < j =>
            \A k \in RecordOf(executed[i]), l \in RecordOf(executed[j]) : k < l

-----------------------------------------------------------------------------
(* The resolver *)

\* the last operation was a call of find_search_box_universal
Resolved == last # None /\ last[1].op = "find_search_box_universal"

\* what it returned, the tiers that ran, and what its collaborators did
Info == last[1].info[1]
Tried == last[1].tried
Raising == last[1].env[1].raising
Reply == last[1].env[1].ai

MethodTags == {"apple_specific", "direct_selector", "ai_detected", "html_parsing"}

TierRan(tier) == \E i \in 1..Len(Tried) : Tried[i] = tier

\* C12: find_search_box_universal returns a result whatever the page shows
\* and whatever its collaborators do: found=True with a non-empty input
\* selector and a method tag, or exactly found=False.
C12_AlwaysAResult ==
    Resolved =>
        \/ Info = [found |-> FALSE]
        \/ /\ Info.found = TRUE
           /\ Info.input_selector # ""
           /\ Info.method \in MethodTags

\* a page probe raised and the inference service failed, and the call
\* returned found=False on a loaded page
C12_Witness ==
    /\ Resolved
    /\ page.url # "about:blank"
    /\ Raising # {}
    /\ Reply.kind = "error"
    /\ Info = [found |-> FALSE]

\* the tiers in their order on the page, and whether a tier has a match
TierOrder ==
    (IF is_apple(page) THEN << "apple_specific" >> ELSE <<>>)
    \o << "direct_selector", "ai_detected", "html_parsing" >>

TierMatch(tier) ==
    CASE tier = "apple_specific" ->
            FirstVisible(page, universal_apple_inputs, Raising, "u_wait") # 0
      [] tier = "direct_selector" -> direct_hit(page, Raising) # 0
      [] tier = "ai_detected" -> ~Fails(Raising, "ai", page.url) /\ ai_hit(Reply)
      [] tier = "html_parsing" -> parse_hit(page_inputs(page, Raising)) # 0

FirstMatch == Least({i \in 1..Len(TierOrder) : TierMatch(TierOrder[i])})

\* C13: the tiers run in the order vendor recipe, static patterns,
\* inference, structural parse, and the chain stops at the first tier with
\* a match: the tiers that ran are the ones up to it, its tag is the method
\* returned, and on a page with a visible static-pattern match (and no
\* probe raising) the tag is direct_selector and the inference service is
\* not called.
C13_FixedOrderShortCircuit ==
    Resolved =>
        /\ Tried = SubSeq(TierOrder, 1,
                          IF FirstMatch = 0 THEN Len(TierOrder) ELSE FirstMatch)
        /\ FirstMatch # 0 => Info.found /\ Info.method = TierOrder[FirstMatch]
        /\ FirstMatch = 0 => ~Info.found
        /\ (/\ Raising = {}
            /\ ~is_apple(page)
            /\ \E i \in 1..Len(common_selectors) : Visible(page, common_selectors[i]))
           => /\ Info.found
              /\ Info.method = "direct_selector"
              /\ ~TierRan("ai_detected")

\* a static pattern matched while the inference service had an answer ready
C13_Witness ==
    /\ Resolved
    /\ Info.found
    /\ Info.method = "direct_selector"
    /\ ai_hit(Reply)
    /\ ~TierRan("ai_detected")

\* C14: find_search_box_universal never returns found=True with a selector
\* whose element is on the page but hidden, whichever tier produced it.
C14_NeverAHiddenMatch ==
    (Resolved /\ Info.found) =>
        ~(Present(page, Info.input_selector) /\ ~Visible(page, Info.input_selector))

\* the candidate the inference service named (boxed; None: no usable answer)
Candidate ==
    IF ai_result(Reply) = None THEN None
    ELSE Get(ai_result(Reply)[1], "input_selector", None)

\* C15: an answer of the inference service is returned only when it names a
\* non-empty input selector whose element is on the page and visible; a
\* candidate that is not on the page sends the chain on to the structural
\* parse.
C15_InferenceAnswerValidated ==
    Resolved =>
        /\ (Info.found /\ Info.method = "ai_detected") =>
              /\ Info.input_selector # ""
              /\ Present(page, Info.input_selector)
              /\ Visible(page, Info.input_selector)
        /\ (/\ TierRan("ai_detected")
            /\ ~Fails(Raising, "ai", page.url)
            /\ Candidate \notin {None, Some("")}
            /\ ~Present(page, Candidate[1]))
           => TierRan("html_parsing")

\* the inference service was asked and gave no usable answer: the call raised
\* (rate limit, quota, timeout) or the text is not JSON
InferenceFailed ==
    /\ TierRan("ai_detected")
    /\ \/ Fails(Raising, "ai", page.url)
       \/ Reply.kind = "error"
       \/ ai_result(Reply) = None

\* what Strategy 3 finds in the markup of the page, computed from the inputs
ParseResult ==
    LET inputs == page_inputs(page, Raising)
        h == parse_hit(inputs)
    IN IF h = 0 THEN [found |-> FALSE]
       ELSE [found |-> TRUE, input_selector |-> parsed_selector(inputs[h]),
             button_selector |-> Some("button[type='submit'], input[type='submit']"),
             method |-> "html_parsing"]

\* C16: when the inference service fails, the structural parse tier is still
\* tried and its result is what find_search_box_universal returns; the
\* failure of the service is not surfaced to the caller
C16_InferenceFailureDegrades ==
    (Resolved /\ InferenceFailed) =>
        /\ TierRan("html_parsing")
        /\ Info = ParseResult

\* the service failed and the parse of the markup found the search input
C16_Witness ==
    /\ Resolved
    /\ InferenceFailed
    /\ Info.found
    /\ Info.method = "html_parsing"
    /\ Info = ParseResult

\* the strategies a result names as attempted: {"found": False} has no entry
\* for them
Listed(info) ==
    IF "attempted" \in DOMAIN info
    THEN {info.attempted[i] : i \in 1..Len(info.attempted)}
    ELSE {}

\* C17: if no strategy succeeds the resolver returns NotFound, and that
\* NotFound result lists every strategy that was attempted during the call
C17_NotFoundListsStrategies ==
    (Resolved /\ ~Info.found) =>
        /\ Info.found = FALSE
        /\ \A i \in 1..Len(Tried) : Tried[i] \in Listed(Info)

-----------------------------------------------------------------------------
(* Claims about execute_search and the interactions of the strategies *)

\* execute_search returned False because no search box was found
SearchGaveUp ==
    /\ last # None
    /\ last[1].op = "execute_search"
    /\ last[1].ret = FALSE
    /\ last[1].why = "not_found"

GenericTiers == {"direct_selector", "ai_detected", "html_parsing"}

\* C18: execute_search returns False for "search box not found" only after
\* every tier has been tried without a match; on apple.com a vendor recipe
\* that finds no visible input is followed by the generic tiers
C18_OnlyExhaustionFails ==
    SearchGaveUp =>
        \A tier \in GenericTiers :
            \E i \in 1..Len(last[1].tried) : last[1].tried[i] = tier

\* the clicks on the Apple search icon that open the search menu: the one of
\* execute_search and the one of find_search_box_universal
RevealingClicks ==
    {i \in DOMAIN executed :
        /\ executed[i].kind = "click"
        /\ executed[i].key[2] \in {"icon_click", "u_icon_click"}}

\* C19: a strategy that interacts with the page to reveal an element (the
\* click on the Apple search icon) has appended that interaction to the
\* Action Recorder when it returns, in find_search_box_universal as well as
\* in execute_search
C19_RevealingClickRecorded ==
    attached =>
        \A i \in RevealingClicks :
            \E k \in RecordOf(executed[i]) : get_actions[k].type = "click"

\* the step is a call of the resolver or of execute_search that ended
\* without a search box: found=False, or False for "not found"
EndsNotFound ==
    /\ ops' = ops + 1
    /\ last' # None
    /\ \/ last'[1].op = "find_search_box_universal" /\ last'[1].ret = FALSE
       \/ /\ last'[1].op = "execute_search"
          /\ last'[1].ret = FALSE
          /\ last'[1].why = "not_found"

\* C20: strategies are read-only until a match triggers an interaction: a
\* resolution that ends in NotFound (find_search_box_universal returning
\* found=False, execute_search returning False) leaves the page and the
\* action log as they were before the call
C20_NotFoundLeavesNoTrace ==
    [][EndsNotFound => (page' = page /\ actions' = actions)]_vars

-----------------------------------------------------------------------------
(* Claims about click_product_image *)

\* the first call of click_product_image on a results page of the trees
ImageCalled ==
    /\ last # None
    /\ last[1].op = "click_product_image"
    /\ last[1].env # None
    /\ ops = 1

\* the text element with the product name (0: none)
Named(dom, name) ==
    Least({i \in DOMAIN dom :
              /\ dom[i].text_nodes # <<>>
              /\ Contains(lower(name), lower(dom[i].text_nodes[1]))})

\* the images under an element (none under no element)
ImagesUnder(dom, i) ==
    IF i = 0 THEN {} ELSE {j \in DOMAIN dom : dom[j].tag = "img" /\ IsUnder(dom, j, i)}

RECURSIVE AncestorAt(_, _, _)
AncestorAt(dom, i, k) ==
    IF i = 0 THEN 0
    ELSE IF k = 0 THEN i
    ELSE AncestorAt(dom, dom[i].parent, k - 1)

\* where the walk looks, in its order: the element itself, its descendants,
\* the parent, the grandparent, the previous sibling, the next sibling, the
\* ancestors of levels 1 to 5
WalkOrder(dom, e) == <<
    IF dom[e].tag = "img" THEN {e} ELSE {},
    ImagesUnder(dom, e),
    ImagesUnder(dom, AncestorAt(dom, e, 1)),
    ImagesUnder(dom, AncestorAt(dom, e, 2)),
    ImagesUnder(dom, previousElementSibling(dom, e)),
    ImagesUnder(dom, nextElementSibling(dom, e)),
    ImagesUnder(dom, AncestorAt(dom, e, 1)),
    ImagesUnder(dom, AncestorAt(dom, e, 2)),
    ImagesUnder(dom, AncestorAt(dom, e, 3)),
    ImagesUnder(dom, AncestorAt(dom, e, 4)),
    ImagesUnder(dom, AncestorAt(dom, e, 5)) >>

\* the first visible image of the walk (0: none)
FirstVisibleImage(dom, e) ==
    LET walk == WalkOrder(dom, e)
        seen(k) == {j \in walk[k] : dom[j].visible}
        steps == {k \in 1..Len(walk) : seen(k) # {}}
    IN IF steps = {} THEN 0 ELSE Least(seen(Least(steps)))

\* the elements the call clicked
ClickedRefs ==
    {executed[i].key[3] : i \in {j \in DOMAIN executed :
                                    executed[j].kind = "click" /\ executed[j].key[1] = ops}}

\* C21: for a text element whose text contains all keywords of the product
\* name, click_product_image looks for an image in the order of the walk and
\* clicks the first visible image in that order: a hidden image found at an
\* earlier step does not prevent a visible image of a later step from being
\* clicked
C21_FirstVisibleImageClicked ==
    ImageCalled =>
        LET e == Named(page.dom, last[1].env[1].name)
        IN (e # 0 /\ FirstVisibleImage(page.dom, e) # 0) =>
              /\ last[1].ret = TRUE
              /\ ClickedRefs = {page.dom[FirstVisibleImage(page.dom, e)].ref}

\* the images that are siblings of an element
SiblingImages(dom, e) ==
    {j \in DOMAIN dom : /\ j # e
                        /\ dom[j].tag = "img"
                        /\ dom[e].parent # 0
                        /\ dom[j].parent = dom[e].parent}

\* C22: when the matched text element has a sibling img and neither the
\* element nor any of its descendants is an image, click_product_image clicks
\* that sibling image and not an unrelated image elsewhere on the page
C22_SiblingImageClicked ==
    ImageCalled =>
        LET dom == page.dom
            e == Named(dom, last[1].env[1].name)
        IN (/\ e # 0
            /\ dom[e].tag # "img"
            /\ ImagesUnder(dom, e) = {}
            /\ SiblingImages(dom, e) # {}
            /\ \A j \in DOMAIN dom : dom[j].visible) =>
               /\ ClickedRefs # {}
               /\ ClickedRefs \subseteq {dom[j].ref : j \in SiblingImages(dom, e)}

-----------------------------------------------------------------------------
(* More claims about the tracker *)

\* C25: the recorder never fails and never drops: every call of add_action,
\* whatever its keyword payload, grows the log by exactly one record whose
\* type is the action type passed to the call
C25_OneRecordOfTheTypePassed ==
    /\ Len(get_actions) = Len(calls)
    /\ \A k \in 1..Len(calls) : get_actions[k].type = calls[k].action_type

\* C26: start() is an idempotent reset: after start(), get_actions() is empty
\* whatever had been recorded before, and calling start() twice in a row
\* leaves the same (empty) log as calling it once
C26_StartResets == [][start => get_actions' = <<>>]_vars

\* a session was stopped and a new one started later, with an empty log
C26_Witness ==
    /\ end_time = Some(0)
    /\ start_time = Some(MaxClock)
    /\ ~stopped
    /\ get_actions = <<>>

IsPrefix(a, b) == Len(a) <= Len(b) /\ SubSeq(b, 1, Len(a)) = a

\* C27: the log is append-only: every operation except start() and clear()
\* leaves the previous log as a prefix of the new log
C27_AppendOnly == [][start \/ clear \/ IsPrefix(get_actions, get_actions')]_vars

\* two records were appended one after the other, and the log was stopped
C27_Witness ==
    /\ Len(get_actions) = 2
    /\ Len(calls) = 2
    /\ stopped
    /\ atStop = get_actions

-----------------------------------------------------------------------------
(* More claims about the generator *)

\* the block has a statement that opens with the text and whose string
\* literals, as Python reads them, are exactly the values
Calls(b, text, values) ==
    \E i \in 1..Len(b) :
        /\ StartsWith(b[i], indent \o text)
        /\ LexOk(b[i])
        /\ StringTokens(b[i]) = values

\* C28: a Click record whose element type does not denote an image compiles
\* to a block that waits for exactly the recorded selector and clicks it; a
\* Fill record to focus, clear, set value on exactly the recorded selector
\* with the recorded text; a KeyPress record to a press of the recorded key
\* on exactly the recorded selector
C28_LiteralReplay ==
    Generated =>
        \A k \in 1..Len(gen_actions) :
            LET r == gen_actions[k]
                b == BlockLines(ScriptLines, k)
            IN /\ (r.type = "click" /\ ~IsImageClick(r)) =>
                     /\ HasStep(ScriptLines, k)
                     /\ Calls(b, "element = await page.wait_for_selector(", {r.selector})
                     /\ HasLine(b, indent \o "await element.click()")
               /\ r.type = "fill" =>
                     /\ HasStep(ScriptLines, k)
                     /\ Calls(b, "input = await page.wait_for_selector(", {r.selector, "visible"})
                     /\ HasLine(b, indent \o "await input.click()")
                     /\ HasLine(b, indent \o "await input.fill(" \o DQ \o DQ \o ")")
                     /\ b[Len(b) - 1] = indent \o "await input.fill(" \o DQ \o r.text \o DQ \o ")"
               /\ r.type = "press" =>
                     /\ HasStep(ScriptLines, k)
                     /\ Calls(b, "element = await page.wait_for_selector(", {r.selector})
                     /\ Calls(b, "await element.press(", {r.key})

\* C29: every Wait record compiles to an annotated wait statement carrying
\* the recorded timeout: a network-idle wait when its kind is 'load', an
\* explicit wait_for_selector otherwise, also for a record without a timeout
\* or of kind 'selector' without a selector
C29_EveryWaitCompiled ==
    Generated =>
        \A k \in 1..Len(gen_actions) :
            gen_actions[k].type = "wait" =>
                LET r == gen_actions[k]
                    carried == "timeout=" \o fmt_opt_int(r.timeout) \o ")"
                IN /\ HasStep(ScriptLines, k)
                   /\ \E i \in 1..Len(BlockLines(ScriptLines, k)) :
                         LET line == BlockLines(ScriptLines, k)[i]
                         IN /\ Contains(carried, line)
                            /\ IF r.wait_type = "load"
                               THEN StartsWith(line, indent \o "await page.wait_for_load_state("
                                                      \o DQ \o "networkidle" \o DQ)
                               ELSE StartsWith(line, indent \o "await page.wait_for_selector(")

-----------------------------------------------------------------------------
(* Errors of single probes *)

\* the step is an agent operation in which exactly one page call raised
OneCallRaised == ops' = ops + 1 /\ faults' = faults + 1

\* the operation of the step ended without a search box
NoSearchBox ==
    /\ last' # None
    /\ \/ last'[1].op = "find_search_box_universal" /\ last'[1].ret = FALSE
       \/ /\ last'[1].op = "execute_search"
          /\ last'[1].ret = FALSE
          /\ last'[1].why = "not_found"

\* C30: an error raised by a single probe in find_search_box_universal or
\* execute_search counts as no match and is not fatal: the candidates after
\* it are still probed and after the last candidate the next strategy is
\* tried, so a call in which one probe raised gives up only after every
\* strategy was tried
C30_ProbeErrorNotFatal ==
    [][(OneCallRaised /\ NoSearchBox) =>
          \A tier \in GenericTiers :
              \E i \in 1..Len(last'[1].tried) : last'[1].tried[i] = tier]_vars

-----------------------------------------------------------------------------
(* Claims about the execute boundaries *)

Boundaries ==
    {"WebNavigatorAgent.execute", "ProductSearchAgent.execute",
     "CartCheckoutAgent.execute", "OrchestratorAgent.execute"}

\* an execute of the orchestrator ended, and the calls of the tracker and of
\* the generator it made
OrchestratorRan == last # None /\ last[1].op = "OrchestratorAgent.execute"
SessionCalls == last[1].tried
Times(call) == Cardinality({i \in DOMAIN SessionCalls : SessionCalls[i] = call})

\* C23: in every execute of the orchestrator that calls action_tracker.start(),
\* the tracker is stopped later and the stopped log is compiled into a script
\* exactly once before execute returns, whatever the outcome of the browser
\* initialization, of the planning and of the execution of the plan.
C23_SessionStoppedAndCompiledOnce ==
    (OrchestratorRan /\ Times("start") > 0) =>
        /\ \E i, j, k \in DOMAIN SessionCalls :
              /\ i < j /\ j < k
              /\ SessionCalls[i] = "start"
              /\ SessionCalls[j] = "stop"
              /\ SessionCalls[k] = "generate"
        /\ Times("stop") = 1
        /\ Times("generate") = 1
        /\ stopped
        /\ atStop = actions
        /\ gen_actions = atStop
        /\ script # None

\* C24: execute of WebNavigatorAgent, ProductSearchAgent, CartCheckoutAgent and
\* OrchestratorAgent returns, for every task (an unknown action, a missing
\* query and any internal error included), a dictionary with a status and a
\* message, and does not raise.
C24_BoundaryReturnsResult ==
    (last # None /\ last[1].op \in Boundaries) =>
        /\ last[1].ret
        /\ last[1].info # None
        /\ {"status", "message"} \subseteq DOMAIN last[1].info[1]
        /\ last[1].info[1].status \in {"success", "error", "partial"}
        /\ last[1].info[1].message # ""

\* the script could not be written at the end of an orchestration: execute
\* returned the error as a result
C24_Witness ==
    /\ OrchestratorRan
    /\ SessionCalls = << "start", "stop", "generate" >>
    /\ last[1].ret
    /\ last[1].info = Some(result("error", "str(e)"))

-----------------------------------------------------------------------------
(* Claims about the link fallback of click_product_image *)

\* every image the walk from an element can come upon
WalkImages(dom, e) == UNION {WalkOrder(dom, e)[k] : k \in 1..Len(WalkOrder(dom, e))}

\* the links the call clicked
LinkClicks ==
    {executed[i].key[3] : i \in {j \in DOMAIN executed :
                                    /\ executed[j].kind = "click"
                                    /\ executed[j].key[1] = ops
                                    /\ executed[j].key[2] = "link_click"}}

\* C31: in click_product_image the matched text element is clicked as a
\* fallback exactly when the adjacency walk found no image and the text
\* element is itself a visible link (tag a); the link is never clicked when
\* the walk found an image
C31_LinkFallback ==
    ImageCalled /\ executed # <<>> =>
        LET dom == page.dom
            e == Named(dom, last[1].env[1].name)
        IN e # 0 =>
              /\ LinkClicks \subseteq {dom[e].ref}
              /\ (dom[e].ref \in LinkClicks) <=>
                     (/\ WalkImages(dom, e) = {}
                      /\ dom[e].tag = "a"
                      /\ dom[e].visible)

\* a call clicked the link with the product name
C31_Witness ==
    /\ ImageCalled
    /\ last[1].ret = TRUE
    /\ LinkClicks # {}
    /\ \A i \in DOMAIN page.dom : page.dom[i].tag # "img"

-----------------------------------------------------------------------------
(* Claims about the structural parse tier *)

\* the resolver was called and went as far as parsing the markup it read
ParseRan ==
    /\ last # None
    /\ last[1].op = "find_search_box_universal"
    /\ last[1].tried # <<>>
    /\ last[1].tried[Len(last[1].tried)] = "html_parsing"
    /\ "markup" \in DOMAIN page
    /\ <<"content", page.url>> \notin last[1].env[1].raising

\* the text and search inputs of the markup one of whose four attributes
\* holds a keyword
KeywordInputs(markup) ==
    {i \in 1..Len(markup) :
        /\ markup[i].type \in {Some("text"), Some("search")}
        /\ \E attr \in {"id", "name", "placeholder", "aria_label"} :
              /\ markup[i][attr] # None
              /\ \E keyword \in {"search", "q", "query"} :
                    Contains(keyword, lower(markup[i][attr][1]))}

-----------------------------------------------------------------------------
(* Claims about what the log holds of a session *)

\* the records of the log that stand for an interaction with the page
InteractionRecords ==
    {k \in DOMAIN get_actions :
        /\ k \in DOMAIN calls
        /\ get_actions[k].type \in {"navigate", "click", "fill", "press"}}

\* the product_image Click records an operation left in the log
ImageRecords(n) ==
    {k \in InteractionRecords :
        /\ calls[k].of[1] = n
        /\ get_actions[k].type = "click"
        /\ Get(get_actions[k], "element_type", None) = Some("product_image")}

\* C33: the log holds a Navigate, Click, Fill or KeyPress record only for an
\* interaction that completed without error: when page.goto, element.click,
\* element.fill or element.press raised, no record of that interaction
\* remains in the log; and a single call of click_product_image leaves at
\* most one product_image Click record
C33_OnlyCompletedRecorded ==
    /\ \A k \in InteractionRecords :
          \E i \in DOMAIN executed :
             /\ executed[i].key = calls[k].of
             /\ executed[i].kind = get_actions[k].type
    /\ \A n \in 1..ops : Cardinality(ImageRecords(n)) <= 1

-----------------------------------------------------------------------------
(* Claims about the hand-over of the log *)

\* C34: the sequence handed to the compiler is fixed at hand-over: once
\* PlaywrightScriptGenerator has been constructed from tracker.get_actions(),
\* an append made to the tracker does not change the sequence generate()
\* compiles, and a sequence returned by get_actions() does not grow when
\* later records are appended
C34_FixedAtHandover ==
    [][Len(calls') = Len(calls) + 1 => gen_actions' = gen_actions]_vars

-----------------------------------------------------------------------------
(* Claims about two flows appending to one tracker *)

\* the numbers carried by the records of the flow in the log, in log order
FlowLog(f) ==
    LET OfFlow(r) == r.type = "sleep" /\ r.seconds \div 10 = f
        own == SelectSeq(get_actions, OfFlow)
    IN [k \in 1..Len(own) |-> own[k].seconds % 10]

\* C35: if two asynchronous flows append to the same ActionTracker in any
\* interleaving, every add_action call lands as exactly one whole record, no
\* record is lost or duplicated, and the log order equals the order in which
\* the add_action calls ran
C35_InterleavedAppends ==
    /\ \A f \in Flows : FlowLog(f) = [k \in 1..FlowCalls(f) |-> k]
    /\ Len(get_actions) = FlowCalls(1) + FlowCalls(2)
    /\ \A k \in DOMAIN get_actions :
          /\ DOMAIN get_actions[k] = {"type", "timestamp", "seconds"}
          /\ k \in DOMAIN calls
          /\ get_actions[k].seconds = calls[k].kwargs.seconds

\* both flows appended within the same instant, the second flow first
C35_Witness ==
    /\ Len(get_actions) = 2
    /\ get_actions[1].seconds = 21
    /\ get_actions[2].seconds = 11
    /\ get_actions[1].timestamp = get_actions[2].timestamp

-----------------------------------------------------------------------------
(* Claims about the times of a session *)

\* C36: in every reachable state of an ActionTracker (any sequence of start,
\* stop, add_*, clear), when start_time and end_time are both set, end_time
\* is not earlier than start_time: start() leaves no end time of a previous
\* session behind
C36_EndNotBeforeStart ==
    (start_time # None /\ end_time # None) => end_time[1] >= start_time[1]

-----------------------------------------------------------------------------
(* Claims about the search icon of the Apple flow *)

\* the last operation was execute_search on a page of apple.com
AppleSearched ==
    /\ last # None
    /\ last[1].op = "execute_search"
    /\ Contains("apple.com", lower(page.url))

\* the icons the call clicked, and the icons it recorded a click of
IconClicks ==
    {i \in DOMAIN executed :
        /\ executed[i].key[1] = ops
        /\ executed[i].kind = "click"
        /\ executed[i].key[2] = "icon_click"}

IconRecords ==
    {k \in DOMAIN calls :
        /\ k \in DOMAIN get_actions
        /\ calls[k].of[1] = ops
        /\ get_actions[k].type = "click"
        /\ Get(get_actions[k], "element_type", None) = Some("search_icon")}

\* the candidates of the list that are on the page and visible
VisibleIcons ==
    {j \in DOMAIN apple_search_icons :
        apple_search_icons[j] \in Site(page).vis}

\* C37: in one run of the Apple flow of execute_search at most one
\* search-icon click is performed and at most one search_icon Click record is
\* appended, for the first candidate selector in list order that exists and
\* is visible; when no candidate is visible, no icon click is performed or
\* recorded
C37_OneIconClick ==
    AppleSearched =>
        /\ Cardinality(IconClicks) <= 1
        /\ Cardinality(IconRecords) <= 1
        /\ \A i \in IconClicks :
              /\ VisibleIcons # {}
              /\ executed[i].key[3] = apple_search_icons[Least(VisibleIcons)]
        /\ \A k \in IconRecords :
              /\ VisibleIcons # {}
              /\ get_actions[k].selector = apple_search_icons[Least(VisibleIcons)]

-----------------------------------------------------------------------------
(* Claims about the status of an orchestration *)

\* C38: OrchestratorAgent.execute reports status 'success' only if no
\* executed plan step returned status 'error': when execute_plan stops at a
\* failed critical step (step_number <= 2), the overall status is not
\* 'success'
C38_SuccessMeansNoFailedStep ==
    (OrchestratorRan /\ last[1].ret /\ last[1].info[1].status = "success") =>
        /\ "results" \in DOMAIN last[1].info[1]
        /\ \A k \in DOMAIN last[1].info[1].results :
              last[1].info[1].results[k] # "error"

-----------------------------------------------------------------------------
(* Claims about the release of the browser *)

\* C39: every OrchestratorAgent.execute call ends with the browser released:
\* when execute has returned (a success result, an early error return such as
\* a missing query or a failed browser initialization, or an internal
\* exception), the navigator's page, context, browser and playwright handles
\* are all None, and an error raised while closing one of them does not
\* prevent the others from being closed
C39_BrowserReleased ==
    OrchestratorRan =>
        \A i \in DOMAIN HandleNames : ~handles[HandleNames[i]]

\* an execute that had the browser ready returned although closing the
\* context and the browser raised
C39_Witness ==
    /\ OrchestratorRan
    /\ "stop" \in {SessionCalls[i] : i \in DOMAIN SessionCalls}
    /\ last[1].env[1].closing = {"context", "browser"}
    /\ handles = Released

====
